---- MODULE Spec2Model ----
(***************************************************************************)
(* NEXUS decision-and-control core: the NexusAgent safety gate             *)
(* (execute_tool, _check_canary_limits, daily counters), the ReAct loop    *)
(* (run_forever, pause, resume) and the AgentManager that owns the loop    *)
(* task.  Coroutines are modelled at the granularity of asyncio: one       *)
(* action is the code that runs between two suspension points (awaits).    *)
(***************************************************************************)
EXTENDS Integers, Sequences, FiniteSets, TLC

(***************************************************************************)
(* Bounds of the model.                                                    *)
(***************************************************************************)
\* Settings.max_auto_applies_per_day (env-overridable, default 10): the
\* configuration the model runs.
max_auto_applies_per_day == 2
\* Settings.max_auto_send_messages_per_day (env-overridable, default 5).
max_auto_send_messages_per_day == 1
\* execute_tool calls made by the driver of SpecGate.
MaxCalls == 4
\* UTC dates the wall clock runs through (dates are 1..MaxDay).
MaxDay == 2
\* Reasoning requests the loop submits in SpecLoop.
MaxRequests == 1
\* Control calls of the AgentManager in flight at once in SpecMgr.
MaxProcs == 2
\* Conversation entries ever appended in SpecHistory.
MaxEntries == 106
\* Loop tasks the AgentManager creates in SpecMgr.
MaxTasks == 2
\* NexusAgent instances the AgentManager creates in SpecMgr.
MaxAgents == 2
\* The largest score, and the largest threshold, decide is applied to.
MaxScore == 100
\* The largest max_retries apply_with_retry is called with.
MaxRetries == 2
\* The number of process_feedback calls made on one PreferenceEngine.
MaxFeedback == 4
\* The largest _feedback_count recalculate_weights is called at.
MaxCount == 6
\* The longest list of topics and of speakers of a scored item.
MaxItems == 2
\* The reasoning requests of a run of SpecTurns.
MaxTurns == 2
\* The longest list of events given to deduplicate_events.
MaxEvents == 3
\* The longest list of results of one search.
MaxResults == 2
\* The connect calls made on the ConnectionManager.
MaxConnects == 3

(***************************************************************************)
(* Tool catalog and modes.                                                 *)
(***************************************************************************)
DRY_RUN == "dry_run"
REPLAY == "replay"
CANARY == "canary"
LIVE == "live"
NexusMode == {DRY_RUN, REPLAY, CANARY, LIVE}

TOOL_NAMES ==
    {"tavily_search", "yutori_browse", "yutori_scout", "reka_vision",
     "neo4j_query", "neo4j_write", "google_calendar",
     "resolve_social_accounts", "draft_message", "get_user_feedback",
     "notify_user", "wait"}

\* A name the reasoning model may produce that is in no catalog.
UnknownTool == "no_such_tool"
ToolInputs == TOOL_NAMES \cup {UnknownTool}

SIDE_EFFECT_TOOLS_missing_scout == {"yutori_browse", "google_calendar", "notify_user"}
SIDE_EFFECT_TOOLS == {"yutori_browse", "yutori_scout", "google_calendar", "notify_user"}

Clients == {"tavily", "yutori", "neo4j", "reka"}

VARIABLES
    mode,               \* NexusAgent.mode, fixed at construction
    clients,            \* the integration clients that are not None
    ws_broadcast,       \* whether a WebSocket broadcaster was passed in
    applies_today,      \* NexusAgent._applies_today
    messages_today,     \* NexusAgent._messages_today
    last_reset_date,    \* NexusAgent._last_reset_date (0 is the initial "")
    today,              \* the wall clock's UTC date
    exec_pc,            \* where the running execute_tool call is suspended
    exec_tool,          \* tool_name of the current / last execute_tool call
    result,             \* what the last execute_tool call returned
    ncalls,             \* history: execute_tool calls made
    browse_dispatched,  \* history: yutori_browse dispatches begun on `today`
    notify_dispatched,  \* history: notify_user dispatches begun on `today`
    prev_applies,       \* history: _applies_today overwritten by the last reset
    running,            \* NexusAgent.running
    conversation_history, \* NexusAgent.conversation_history
    loop_pc,            \* where the run_forever task is suspended
    response,           \* the reasoning response being processed
    block_idx,          \* position of the for loop over response.content
    tool_results,       \* the local list tool_results
    remaining,          \* the wait tool's local `remaining`
    slept,              \* the time the wait in progress has been suspended so far
    backoff_left,       \* iterations left of the recovery for loop
    nrequests,          \* history: reasoning requests submitted
    starts,             \* history: first steps of run_forever (2: two or more)
    m_agent,            \* AgentManager._agent (0 is None, else the instance)
    agent_running,      \* NexusAgent.running of every instance created
    nagents,            \* NexusAgent instances created
    m_task,             \* AgentManager._task (0 is None, else the task)
    tasks,              \* the asyncio tasks created for _run_agent
    ntasks,             \* tasks created
    m_status,           \* AgentManager._status
    persisted,          \* the agent_status row of the database ("none": no row)
    profile,            \* whether an onboarded user profile exists
    procs,              \* the control calls in flight, one per caller
    stepped,            \* the calls that ran since a task was created and
                        \* has not yet taken its first step
    pause_settled,      \* history: a pause took effect, nothing (re)started since
    resume_settled,     \* history: a resume completed, no control call since
    score,              \* decide: the argument score
    user_profile,       \* decide: the argument user_profile (a dict)
    decision,           \* decide: the ActionDecision returned
    yutori,             \* whether ActionAgent._yutori is not None
    action_applies_today, \* ActionAgent._applies_today
    retry_pc,           \* where the apply_with_retry call is suspended
    attempt,            \* apply_with_retry's local `attempt`
    max_retries,        \* apply_with_retry's argument max_retries
    last_error,         \* apply_with_retry's local `last_error`
    event_url,          \* event.get("url", "") of the argument event
    retry_result,       \* what the last apply_with_retry call returned
    outcomes,           \* history: how each apply_to_event call of it ended
    topic_affinities,   \* PreferenceEngine.topic_affinities (a dict)
    avoided_topics,     \* PreferenceEngine.avoided_topics
    preferred_times,    \* PreferenceEngine.preferred_times (a dict)
    weights,            \* PreferenceEngine.weights
    feedback_count,     \* PreferenceEngine._feedback_count
    feedback_history,   \* recalculate_weights: the argument feedback_history
    returned_weights,   \* recalculate_weights: the dict returned (<<>>: no call yet)
    enriched,           \* calculate_relevance: the argument enriched
    scoring_profile,    \* calculate_relevance: the argument user_profile
    relevance,          \* calculate_relevance: the dimension scores and the result
    events,             \* deduplicate_events: the argument of the first call
    similar,            \* the pairs of titles with fuzz.ratio > 80
    deduplicated,       \* the list returned by deduplicate_events(events)
    deduplicated_again, \* the list returned by deduplicate_events on that list
    disc_pc,            \* discover_events_tavily: "idle", "gather", "returned", "raised"
    searches,           \* the search coroutines given to gather, one per query
    all_events,         \* the list discover_events_tavily returned
    connections,        \* ConnectionManager._connections: the dict's entries in order
    nconnects,          \* the WebSocket objects created so far
    bc_pc,              \* broadcast: "idle", "send", "persist", "returned", "raised"
    bc_pos,             \* the position of the dict iterator in the entries
    bc_used,            \* the size of the dict when the iterator was created
    bc_ws,              \* broadcast's loop variables user_id and ws
    bc_disconnected,    \* broadcast's local list `disconnected`
    bc_sent,            \* history: the sockets whose send_text returned
    bc_failed,          \* history: the sockets whose send_text raised
    bc_removed,         \* history: the sockets broadcast has popped
    bc_stable           \* history: the sockets registered since broadcast was called

gate_vars ==
    <<mode, clients, ws_broadcast, applies_today, messages_today,
      last_reset_date, today, exec_pc, exec_tool, result, ncalls,
      browse_dispatched, notify_dispatched, prev_applies>>

loop_vars ==
    <<running, conversation_history, loop_pc, response, block_idx,
      tool_results, remaining, slept, backoff_left, nrequests, starts>>

mgr_vars ==
    <<m_agent, agent_running, nagents, m_task, tasks, ntasks, m_status,
      persisted, profile, procs, stepped, pause_settled, resume_settled>>

act_vars ==
    <<score, user_profile, decision, yutori, action_applies_today, retry_pc,
      attempt, max_retries, last_error, event_url, retry_result, outcomes>>

pref_vars ==
    <<topic_affinities, avoided_topics, preferred_times, weights, feedback_count>>

\* The state of the services (app/services).
recalc_vars == <<feedback_history, returned_weights>>

scoring_vars == <<enriched, scoring_profile, relevance>>

dedup_vars == <<events, similar, deduplicated, deduplicated_again>>

disc_vars == <<disc_pc, searches, all_events>>

conn_vars ==
    <<connections, nconnects, bc_pc, bc_pos, bc_used, bc_ws, bc_disconnected,
      bc_sent, bc_failed, bc_removed, bc_stable>>

svc_vars == <<pref_vars, recalc_vars, scoring_vars, dedup_vars, disc_vars, conn_vars>>

vars == <<gate_vars, loop_vars, mgr_vars, act_vars, svc_vars>>

(***************************************************************************)
(* Results of execute_tool.  Every result is a record of the same shape;   *)
(* a key the Python dict lacks is "absent".                                *)
(***************************************************************************)
NoResult == [status |-> "absent", reason |-> <<>>, error |-> "absent", tool |-> "absent"]

Raised == [status |-> "absent", reason |-> <<>>, error |-> "RAISED", tool |-> "absent"]

BlockedByMode(m) ==
    [status |-> "blocked", reason |-> <<"Side effects disabled in ", m, " mode">>,
     error |-> "absent", tool |-> "absent"]

BlockedByCanary ==
    [status |-> "blocked", reason |-> <<"Daily limit reached in canary mode">>,
     error |-> "absent", tool |-> "absent"]

tool_failure_raises(t) == Raised
ToolFailure(t) ==
    [status |-> "absent", reason |-> <<>>, error |-> "exception", tool |-> t]

WsEventFailure(t) == ToolFailure(t)

ErrorResult(msg) ==
    [status |-> "absent", reason |-> <<>>, error |-> msg, tool |-> "absent"]

StatusResult(s) ==
    [status |-> s, reason |-> <<>>, error |-> "absent", tool |-> "absent"]

IsBlocked(r) == r.status = "blocked"

(***************************************************************************)
(* NexusAgent.allow_side_effects                                           *)
(***************************************************************************)
allow_side_effects == mode \in {CANARY, LIVE}

(***************************************************************************)
(* NexusAgent._reset_daily_counters_if_needed, on the counters             *)
(* ctr = [applies_today, messages_today, last_reset_date] at date `now`.   *)
(***************************************************************************)
Counters == [applies_today |-> applies_today, messages_today |-> messages_today,
             last_reset_date |-> last_reset_date]

reset_keeps_applies(ctr, now) ==
    IF ctr.last_reset_date # now
        THEN [applies_today |-> ctr.applies_today, messages_today |-> 0,
              last_reset_date |-> now]
        ELSE ctr
reset_daily_counters_if_needed(ctr, now) ==
    IF ctr.last_reset_date # now
        THEN [applies_today |-> 0, messages_today |-> 0, last_reset_date |-> now]
        ELSE ctr

(***************************************************************************)
(* NexusAgent._check_canary_limits: the counters after the call and        *)
(* whether the tool is allowed.                                            *)
(***************************************************************************)
canary_limits_in_every_mode(tool_name, ctr, now) ==
    LET c == reset_daily_counters_if_needed(ctr, now)
    IN  [ctr |-> c,
         allowed |-> ~ \/ (tool_name = "yutori_browse"
                            /\ c.applies_today >= max_auto_applies_per_day)
                       \/ (tool_name = "notify_user"
                            /\ c.messages_today >= max_auto_send_messages_per_day)]
canary_limits_by_side_effect(tool_name, ctr, now) ==
    IF mode # CANARY
        THEN [ctr |-> ctr, allowed |-> TRUE]
        ELSE LET c == reset_daily_counters_if_needed(ctr, now)
             IN  [ctr |-> c,
                  allowed |-> ~ \/ (tool_name \in {"yutori_browse", "yutori_scout"}
                                     /\ c.applies_today >= max_auto_applies_per_day)
                                \/ (tool_name = "notify_user"
                                     /\ c.messages_today >= max_auto_send_messages_per_day)]
canary_limits_off_by_one(tool_name, ctr, now) ==
    IF mode # CANARY
        THEN [ctr |-> ctr, allowed |-> TRUE]
        ELSE LET c == reset_daily_counters_if_needed(ctr, now)
             IN  [ctr |-> c,
                  allowed |-> ~ \/ (tool_name = "yutori_browse"
                                     /\ c.applies_today > max_auto_applies_per_day)
                                \/ (tool_name = "notify_user"
                                     /\ c.messages_today > max_auto_send_messages_per_day)]
check_canary_limits(tool_name, ctr, now) ==
    IF mode # CANARY
        THEN [ctr |-> ctr, allowed |-> TRUE]
        ELSE LET c == reset_daily_counters_if_needed(ctr, now)
             IN  [ctr |-> c,
                  allowed |-> ~ \/ (tool_name = "yutori_browse"
                                     /\ c.applies_today >= max_auto_applies_per_day)
                                \/ (tool_name = "notify_user"
                                     /\ c.messages_today >= max_auto_send_messages_per_day)]

(***************************************************************************)
(* NexusAgent._dispatch_tool and the _exec_* implementations: the results  *)
(* a dispatch of `t` can return, and whether it can raise.                 *)
(***************************************************************************)
ClientOf(t) ==
    CASE t = "tavily_search" -> "tavily"
      [] t \in {"yutori_browse", "yutori_scout"} -> "yutori"
      [] t = "reka_vision" -> "reka"
      [] t \in {"neo4j_query", "neo4j_write"} -> "neo4j"
      [] OTHER -> "none"

NotConfigured(t) ==
    CASE t = "tavily_search" -> ErrorResult("Tavily client not configured")
      [] t \in {"yutori_browse", "yutori_scout"} -> ErrorResult("Yutori client not configured")
      [] t = "reka_vision" -> ErrorResult("Reka client not configured")
      [] OTHER -> ErrorResult("Neo4j client not configured")

\* The dispatch reaches a client-backed tool whose client is None.
ClientMissing(t) == ClientOf(t) # "none" /\ ClientOf(t) \notin clients

DispatchReturns(t) ==
    CASE ClientMissing(t) -> {NotConfigured(t)}
      [] t = "yutori_browse" -> {StatusResult("completed"), StatusResult("failed")}
      [] t = "yutori_scout" -> {StatusResult("running")}
      [] t \in {"tavily_search", "reka_vision", "neo4j_query"} -> {StatusResult("absent")}
      [] t = "neo4j_write" -> {StatusResult("written")}
      [] t = "google_calendar" -> {StatusResult("not_connected")}
      [] t = "resolve_social_accounts" -> {StatusResult("absent")}
      [] t = "draft_message" -> {StatusResult("drafted")}
      [] t = "get_user_feedback" -> {StatusResult("absent")}
      [] t = "notify_user" -> {StatusResult("notified")}
      [] t = "wait" -> {StatusResult("waited")}
      [] OTHER -> {ErrorResult("Unknown tool")}

\* A client call can fail; inp["action"], inp["name"], inp["type"] raise
\* KeyError on an input without the key; the other handlers cannot raise.
dispatch_raises_without_client(t) == TRUE
DispatchCanRaise(t) ==
    CASE ClientMissing(t) -> FALSE
      [] ClientOf(t) # "none" -> TRUE
      [] t \in {"google_calendar", "notify_user", "resolve_social_accounts"} -> TRUE
      [] OTHER -> FALSE

(***************************************************************************)
(* NexusAgent.execute_tool, one action per segment between awaits.         *)
(***************************************************************************)
\* History: a dispatch of tool t begins now.
CountDispatch(t) ==
    /\ browse_dispatched' = browse_dispatched + (IF t = "yutori_browse" THEN 1 ELSE 0)
    /\ notify_dispatched' = notify_dispatched + (IF t = "notify_user" THEN 1 ELSE 0)

\* Lines 722-750: the mode gate, the canary gate, then either the await of
\* the status broadcast or, without a broadcaster, straight into the dispatch.
ExecuteToolCall(t) ==
    /\ exec_pc = "idle"
    /\ exec_tool' = t
    /\ ncalls' = ncalls + 1
    /\ UNCHANGED <<mode, clients, ws_broadcast, today>>
    /\ IF t \in SIDE_EFFECT_TOOLS /\ ~allow_side_effects
         THEN /\ result' = BlockedByMode(mode)
              /\ exec_pc' = "idle"
              /\ UNCHANGED <<applies_today, messages_today, last_reset_date,
                             browse_dispatched, notify_dispatched, prev_applies>>
         ELSE LET chk == check_canary_limits(t, Counters, today)
              IN  /\ applies_today' = chk.ctr.applies_today
                  /\ messages_today' = chk.ctr.messages_today
                  /\ last_reset_date' = chk.ctr.last_reset_date
                  /\ prev_applies' = IF chk.ctr.last_reset_date # last_reset_date
                                        THEN applies_today ELSE prev_applies
                  /\ IF ~chk.allowed
                       THEN /\ result' = BlockedByCanary
                            /\ exec_pc' = "idle"
                            /\ UNCHANGED <<browse_dispatched, notify_dispatched>>
                       ELSE /\ result' = NoResult
                            /\ IF ws_broadcast
                                 THEN /\ exec_pc' = "ws_start"
                                      /\ UNCHANGED <<browse_dispatched, notify_dispatched>>
                                 ELSE /\ exec_pc' = "dispatch"
                                      /\ CountDispatch(t)

\* Lines 740-753: the status broadcast returns and the dispatch begins, or
\* the broadcast raises (it is outside the try) and execute_tool raises.
ExecuteToolWsStart(raises) ==
    /\ exec_pc = "ws_start"
    /\ UNCHANGED <<mode, clients, ws_broadcast, today, applies_today, messages_today,
                   last_reset_date, exec_tool, ncalls, prev_applies>>
    /\ IF raises
         THEN /\ exec_pc' = "idle"
              /\ result' = Raised
              /\ UNCHANGED <<browse_dispatched, notify_dispatched>>
         ELSE /\ exec_pc' = "dispatch"
              /\ result' = NoResult
              /\ CountDispatch(exec_tool)

\* Lines 779-910: the tools for which _broadcast_tool_event awaits a broadcast.
BroadcastsEvent(t) ==
    t \in {"tavily_search", "yutori_browse", "yutori_scout", "neo4j_write", "neo4j_query",
           "draft_message", "resolve_social_accounts", "google_calendar"}

\* Line 755-756: the counter after a dispatch of t that returned.
applies_after_dispatch(t, n) == IF t = "yutori_browse" THEN n + 1 ELSE n

\* Lines 763-767: the counter after a dispatch of t that raised.
applies_after_raise_counts(t, n) == IF t = "yutori_browse" THEN n + 1 ELSE n
applies_after_raise(t, n) == n

\* Lines 753-762: _dispatch_tool returns r; the counter is incremented; then
\* the tool event is broadcast (awaited) or the result returned.
ExecuteToolDispatchReturns(r) ==
    /\ exec_pc = "dispatch"
    /\ r \in DispatchReturns(exec_tool)
    /\ applies_today' = applies_after_dispatch(exec_tool, applies_today)
    /\ result' = r
    /\ exec_pc' = IF ws_broadcast /\ BroadcastsEvent(exec_tool) THEN "ws_event" ELSE "idle"
    /\ UNCHANGED <<mode, clients, ws_broadcast, today, messages_today, last_reset_date,
                   exec_tool, ncalls, browse_dispatched, notify_dispatched, prev_applies>>

\* Lines 763-767: _dispatch_tool raises; the error-shaped result is returned.
ExecuteToolDispatchRaises ==
    /\ exec_pc = "dispatch"
    /\ DispatchCanRaise(exec_tool)
    /\ applies_today' = applies_after_raise(exec_tool, applies_today)
    /\ result' = ToolFailure(exec_tool)
    /\ exec_pc' = "idle"
    /\ UNCHANGED <<mode, clients, ws_broadcast, today, messages_today, last_reset_date,
                   exec_tool, ncalls, browse_dispatched, notify_dispatched, prev_applies>>

\* Lines 759-767: _broadcast_tool_event returns, or raises inside the try.
ExecuteToolWsEvent(raises) ==
    /\ exec_pc = "ws_event"
    /\ exec_pc' = "idle"
    /\ result' = IF raises THEN WsEventFailure(exec_tool) ELSE result
    /\ UNCHANGED <<mode, clients, ws_broadcast, today, applies_today, messages_today,
                   last_reset_date, exec_tool, ncalls, browse_dispatched,
                   notify_dispatched, prev_applies>>

\* datetime.now(timezone.utc) passes midnight.
Tick ==
    /\ today < MaxDay
    /\ today' = today + 1
    /\ browse_dispatched' = 0
    /\ notify_dispatched' = 0
    /\ UNCHANGED <<mode, clients, ws_broadcast, applies_today, messages_today,
                   last_reset_date, exec_pc, exec_tool, result, ncalls, prev_applies>>

(***************************************************************************)
(* SpecGate: a NexusAgent as constructed (lines 474-507), driven by any    *)
(* sequence of execute_tool calls, one at a time, while the date advances. *)
(***************************************************************************)
\* NexusAgent.__init__ lines 487-488 (no loop task yet).
LoopVarsInit ==
    /\ running = FALSE
    /\ conversation_history = <<>>
    /\ loop_pc = "none"
    /\ response = [stop_reason |-> "none", content |-> <<>>]
    /\ block_idx = 0
    /\ tool_results = <<>>
    /\ remaining = 0
    /\ slept = 0
    /\ backoff_left = 0
    /\ nrequests = 0
    /\ starts = 0

\* NexusAgent.__init__ lines 504-507 and the history variables.
CountersInit ==
    /\ applies_today = 0
    /\ messages_today = 0
    /\ last_reset_date = 0
    /\ today = 1
    /\ exec_pc = "idle"
    /\ exec_tool = "absent"
    /\ result = NoResult
    /\ ncalls = 0
    /\ browse_dispatched = 0
    /\ notify_dispatched = 0
    /\ prev_applies = 0

Procs == 1..MaxProcs
IdleProc == [op |-> "idle", pc |-> "idle", val |-> "none", task |-> 0]
NoTask == [st |-> "unused", agent |-> 0, cancel |-> FALSE]

\* AgentManager.__init__ lines 31-34 (no control call in flight).
\* ActionAgent.__init__, and no call of it made.
NoDecision == [action |-> "absent", should_schedule |-> FALSE]
NoProfile == [k \in {} |-> 0]
NoApply == [status |-> "absent", reason |-> "absent", url |-> "absent"]
ActVarsInit ==
    /\ score = 0
    /\ user_profile = NoProfile
    /\ decision = NoDecision
    /\ yutori = FALSE
    /\ action_applies_today = 0
    /\ retry_pc = "idle"
    /\ attempt = 0
    /\ max_retries = 0
    /\ last_error = ""
    /\ event_url = ""
    /\ retry_result = NoApply
    /\ outcomes = <<>>

\* PreferenceEngine.__init__
INITIAL_WEIGHTS ==
    [topic |-> 30, people |-> 25, event_type |-> 15, time |-> 15, historical |-> 15]
NoDict == [k \in {} |-> 0]
PrefVarsInit ==
    /\ topic_affinities = NoDict
    /\ avoided_topics = {}
    /\ preferred_times = NoDict
    /\ weights = INITIAL_WEIGHTS
    /\ feedback_count = 0

RecalcVarsInit ==
    /\ feedback_history = <<>>
    /\ returned_weights = NoDict

\* No call of calculate_relevance made.
NoRelevance == [topic |-> -1, people |-> -1, event_type |-> -1, time |-> -1,
                historical |-> -1, total |-> -1]
NoEnriched == [topics |-> <<>>, speakers |-> <<>>, event_type |-> "", date |-> ""]
NoScoringProfile ==
    [interests |-> <<>>, target_companies |-> <<>>, target_roles |-> <<>>,
     preferred_event_types |-> <<>>, preferred_days |-> <<>>, preferred_times |-> <<>>]
ScoringVarsInit ==
    /\ enriched = NoEnriched
    /\ scoring_profile = NoScoringProfile
    /\ relevance = NoRelevance

\* No call of deduplicate_events made.
NotCalled == <<[title |-> "not called", date |-> "", description |-> -1]>>
DedupVarsInit ==
    /\ events = <<>>
    /\ similar = {}
    /\ deduplicated = NotCalled
    /\ deduplicated_again = NotCalled

\* No call of discover_events_tavily made.
DiscVarsInit ==
    /\ disc_pc = "idle"
    /\ searches = <<>>
    /\ all_events = <<>>

\* ConnectionManager.__init__ (line 18), and no broadcast called.
NoSocket == [user_id |-> "", ws |-> 0]
ConnVarsInit ==
    /\ connections = <<>>
    /\ nconnects = 0
    /\ bc_pc = "idle"
    /\ bc_pos = 0
    /\ bc_used = 0
    /\ bc_ws = NoSocket
    /\ bc_disconnected = <<>>
    /\ bc_sent = <<>>
    /\ bc_failed = {}
    /\ bc_removed = {}
    /\ bc_stable = {}

SvcVarsInit ==
    /\ PrefVarsInit /\ RecalcVarsInit /\ ScoringVarsInit /\ DedupVarsInit /\ DiscVarsInit
    /\ ConnVarsInit

MgrVarsInit ==
    /\ m_agent = 0
    /\ agent_running = [a \in 1..MaxAgents |-> FALSE]
    /\ nagents = 0
    /\ m_task = 0
    /\ tasks = [t \in 1..MaxTasks |-> NoTask]
    /\ ntasks = 0
    /\ m_status = "idle"
    /\ procs = [p \in Procs |-> IdleProc]
    /\ stepped = {}
    /\ pause_settled = FALSE
    /\ resume_settled = FALSE

GateInit ==
    /\ mode \in NexusMode
    /\ clients \in SUBSET Clients
    /\ ws_broadcast \in BOOLEAN
    /\ CountersInit
    /\ LoopVarsInit
    /\ MgrVarsInit
    /\ ActVarsInit
    /\ SvcVarsInit
    /\ persisted = "none"
    /\ profile = TRUE

GateCall ==
    /\ \E t \in ToolInputs : ncalls < MaxCalls /\ ExecuteToolCall(t)
    /\ UNCHANGED <<loop_vars, mgr_vars, act_vars, svc_vars>>
GateWsStart ==
    /\ \E raises \in BOOLEAN : ExecuteToolWsStart(raises)
    /\ UNCHANGED <<loop_vars, mgr_vars, act_vars, svc_vars>>
GateDispatchReturns ==
    /\ \E r \in DispatchReturns(exec_tool) : ExecuteToolDispatchReturns(r)
    /\ UNCHANGED <<loop_vars, mgr_vars, act_vars, svc_vars>>
GateDispatchRaises ==
    /\ ExecuteToolDispatchRaises
    /\ UNCHANGED <<loop_vars, mgr_vars, act_vars, svc_vars>>
GateWsEvent ==
    /\ \E raises \in BOOLEAN : ExecuteToolWsEvent(raises)
    /\ UNCHANGED <<loop_vars, mgr_vars, act_vars, svc_vars>>
GateTick ==
    /\ Tick
    /\ UNCHANGED <<loop_vars, mgr_vars, act_vars, svc_vars>>

GateNext ==
    \/ GateCall
    \/ GateWsStart
    \/ GateDispatchReturns
    \/ GateDispatchRaises
    \/ GateWsEvent
    \/ GateTick

SpecGate == GateInit /\ [][GateNext]_vars

(***************************************************************************)
(* The ReAct loop, NexusAgent.run_forever.                                 *)
(*                                                                         *)
(* loop_pc: "none" no task was created; "created" the task exists and has  *)
(* not run yet; "request" awaiting messages.create; "blocks" in the for    *)
(* loop over response.content; "tool" awaiting execute_tool; "wait_sleep"  *)
(* and "backoff_sleep" awaiting asyncio.sleep; "top" at the while test;    *)
(* "done" run_forever returned.  "top" and "blocks" are not suspension     *)
(* points of the coroutine: letting other coroutines run there only has    *)
(* `running` read after a change that the next await would have let in.    *)
(***************************************************************************)
Text == [type |-> "text", name |-> "absent", id |-> 0, units |-> 0]
ToolUse(t, i, u) == [type |-> "tool_use", name |-> t, id |-> i, units |-> u]

\* Tools the reasoning model asks for, and the wait durations
\* (hours * 3600, in time units) it asks for.
LoopTools == {"yutori_browse", "tavily_search", "wait", UnknownTool}
PairTools == {"yutori_browse", "wait"}
WaitUnits == {25}
UnitsOf(t) == IF t = "wait" THEN WaitUnits ELSE {0}

\* What messages.create may return.
Responses ==
    {[stop_reason |-> "end_turn", content |-> <<Text>>],
     [stop_reason |-> "max_tokens", content |-> <<Text>>]}
    \cup UNION {{[stop_reason |-> "tool_use", content |-> <<ToolUse(t, 1, u)>>] :
                    u \in UnitsOf(t)} : t \in LoopTools}
    \cup {[stop_reason |-> "tool_use",
           content |-> <<Text, ToolUse(t1, 1, 0), ToolUse(t2, 2, 0)>>] :
            t1 \in PairTools, t2 \in PairTools}

NoResponse == [stop_reason |-> "none", content |-> <<>>]

\* Conversation entries.
Kickoff == [role |-> "user", kind |-> "kickoff", ids |-> <<>>]
Continue == [role |-> "user", kind |-> "continue", ids |-> <<>>]
ToolUseIds(content) ==
    LET F[i \in 0..Len(content)] ==
            IF i = 0 THEN <<>>
            ELSE IF content[i].type = "tool_use"
                    THEN Append(F[i - 1], content[i].id) ELSE F[i - 1]
    IN  F[Len(content)]
AssistantEntry(resp) ==
    [role |-> "assistant", kind |-> resp.stop_reason, ids |-> ToolUseIds(resp.content)]
ToolResultsEntry(results) == [role |-> "user", kind |-> "tool_results", ids |-> results]

\* NexusAgent.trim_history
trim_at_100(h) ==
    IF Len(h) >= 100
        THEN SubSeq(h, 1, 2) \o SubSeq(h, Len(h) - 49, Len(h))
        ELSE h
trim_history(h) ==
    IF Len(h) > 100
        THEN SubSeq(h, 1, 2) \o SubSeq(h, Len(h) - 49, Len(h))
        ELSE h

\* The recovery loop runs range(60) iterations of sleep(1).
BACKOFF_ITERATIONS == 60
\* The wait tool sleeps min(remaining, 10).
WAIT_CHUNK == 10

Min(a, b) == IF a < b THEN a ELSE b

\* The step does not touch the execute_tool state and is not a first step
\* of run_forever.
LoopLeavesGate == UNCHANGED <<gate_vars, mgr_vars, act_vars, svc_vars, starts>>

\* asyncio.create_task(self._run_agent()), AgentManager.start line 108.
LoopTaskCreate ==
    /\ loop_pc = "none"
    /\ loop_pc' = "created"
    /\ UNCHANGED <<running, conversation_history, response, block_idx, tool_results,
                   remaining, slept, backoff_left, nrequests>>
    /\ LoopLeavesGate

\* AgentManager.pause line 226 -> NexusAgent.pause.
AgentPause ==
    /\ running' = FALSE
    /\ UNCHANGED <<conversation_history, loop_pc, response, block_idx, tool_results,
                   remaining, slept, backoff_left, nrequests>>
    /\ LoopLeavesGate

\* AgentManager.resume lines 237-246 with an agent: running = True and a new
\* task when there is none or it is done.
AgentResume ==
    /\ running' = TRUE
    /\ loop_pc' = IF loop_pc \in {"none", "done"} THEN "created" ELSE loop_pc
    /\ UNCHANGED <<conversation_history, response, block_idx, tool_results,
                   remaining, slept, backoff_left, nrequests>>
    /\ LoopLeavesGate

\* Lines 579-603: the task's first step.
kickoff_always(h) == TRUE
kickoff_needed(h) == h = <<>>
LoopStart ==
    /\ loop_pc = "created"
    /\ running' = TRUE
    /\ conversation_history' =
            IF kickoff_needed(conversation_history)
                THEN <<Kickoff>> ELSE conversation_history
    /\ loop_pc' = "top"
    /\ starts' = Min(starts + 1, 2)
    /\ UNCHANGED <<response, block_idx, tool_results, remaining, slept, backoff_left, nrequests>>
    /\ UNCHANGED <<gate_vars, mgr_vars, act_vars, svc_vars>>

\* Line 605: the while test.
while_running == running

\* Lines 605-613: the while test, then the reasoning request is submitted.
LoopTopWithin(max) ==
    /\ loop_pc = "top"
    /\ IF while_running
         THEN /\ nrequests < max
              /\ nrequests' = nrequests + 1
              /\ loop_pc' = "request"
         ELSE /\ loop_pc' = "done"
              /\ UNCHANGED nrequests
    /\ UNCHANGED <<running, conversation_history, response, block_idx, tool_results,
                   remaining, slept, backoff_left>>
    /\ LoopLeavesGate

LoopTop == LoopTopWithin(MaxRequests)

\* Lines 623-624: the test after the response was appended.
stop_after_response == ~running

\* Lines 615-627, 668-691: messages.create returned resp.
LoopResponse(resp) ==
    /\ loop_pc = "request"
    /\ response' = resp
    /\ tool_results' = <<>>
    /\ LET h == Append(conversation_history, AssistantEntry(resp))
       IN  IF stop_after_response
             THEN /\ conversation_history' = h
                  /\ loop_pc' = "done"
                  /\ block_idx' = 0
             ELSE IF resp.stop_reason = "tool_use"
                    THEN /\ conversation_history' = h
                         /\ loop_pc' = "blocks"
                         /\ block_idx' = 1
                    ELSE /\ conversation_history' =
                                trim_history(IF resp.stop_reason = "end_turn"
                                                THEN Append(h, Continue) ELSE h)
                         /\ loop_pc' = "top"
                         /\ block_idx' = 0
    /\ UNCHANGED <<running, remaining, slept, backoff_left, nrequests>>
    /\ LoopLeavesGate

\* Lines 693-704: the first test of the recovery loop.
error_ends_loop == loop_pc' = "done" /\ backoff_left' = 0
EnterBackoff ==
    IF running
        THEN loop_pc' = "backoff_sleep" /\ backoff_left' = BACKOFF_ITERATIONS
        ELSE loop_pc' = "top" /\ backoff_left' = 0

\* Lines 693-698: messages.create raised.
LoopRequestFails ==
    /\ loop_pc = "request"
    /\ EnterBackoff
    /\ UNCHANGED <<running, conversation_history, response, block_idx, tool_results,
                   remaining, slept, nrequests>>
    /\ LoopLeavesGate

\* Lines 695-698: a sleep(1) of the recovery loop is over.
LoopBackoffWake ==
    /\ loop_pc = "backoff_sleep"
    /\ backoff_left' = IF backoff_left = 1 \/ ~running THEN 0 ELSE backoff_left - 1
    /\ loop_pc' = IF backoff_left = 1 \/ ~running THEN "top" ELSE "backoff_sleep"
    /\ UNCHANGED <<running, conversation_history, response, block_idx, tool_results,
                   remaining, slept, nrequests>>
    /\ LoopLeavesGate

\* Lines 630-631: the test at the head of the for loop over the blocks.
stop_before_block_ignored == FALSE
stop_before_block == ~running

\* Lines 664-666, 691: the for loop is over; the results are appended.
FinishBlocks ==
    /\ conversation_history' =
            trim_history(Append(conversation_history, ToolResultsEntry(tool_results)))
    /\ loop_pc' = "top"
    /\ block_idx' = 0

\* Lines 629-638: the next block of the response; a tool_use block is passed
\* to execute_tool, which returns at once when the gate blocks it.
LoopBlock ==
    /\ loop_pc = "blocks"
    /\ slept' = 0
    /\ UNCHANGED <<running, response, remaining, backoff_left, nrequests>>
    /\ IF block_idx > Len(response.content) \/ stop_before_block
         THEN /\ FinishBlocks
              /\ UNCHANGED tool_results
              /\ LoopLeavesGate
         ELSE IF response.content[block_idx].type # "tool_use"
                THEN /\ block_idx' = block_idx + 1
                     /\ UNCHANGED <<conversation_history, loop_pc, tool_results>>
                     /\ LoopLeavesGate
                ELSE /\ ncalls < MaxCalls
                     /\ ExecuteToolCall(response.content[block_idx].name)
                     /\ UNCHANGED <<conversation_history, mgr_vars, act_vars, svc_vars, starts>>
                     /\ IF exec_pc' = "idle"
                          THEN /\ tool_results' =
                                    Append(tool_results, response.content[block_idx].id)
                               /\ block_idx' = block_idx + 1
                               /\ UNCHANGED loop_pc
                          ELSE /\ loop_pc' = "tool"
                               /\ UNCHANGED <<tool_results, block_idx>>

\* execute_tool runs on while the loop awaits it.
LoopExecWsStart ==
    /\ loop_pc = "tool"
    /\ \E raises \in BOOLEAN : ExecuteToolWsStart(raises)
    /\ UNCHANGED <<loop_vars, mgr_vars, act_vars, svc_vars>>
LoopExecDispatchReturns ==
    /\ loop_pc = "tool"
    /\ \E r \in DispatchReturns(exec_tool) : ExecuteToolDispatchReturns(r)
    /\ UNCHANGED <<loop_vars, mgr_vars, act_vars, svc_vars>>
LoopExecDispatchRaises ==
    /\ loop_pc = "tool"
    /\ ExecuteToolDispatchRaises
    /\ UNCHANGED <<loop_vars, mgr_vars, act_vars, svc_vars>>
LoopExecWsEvent ==
    /\ loop_pc = "tool"
    /\ \E raises \in BOOLEAN : ExecuteToolWsEvent(raises)
    /\ UNCHANGED <<loop_vars, mgr_vars, act_vars, svc_vars>>

\* Line 659: the test of the wait tool's sleep loop.
wait_to_the_end(rem) == rem > 0
wait_continues(rem) == rem > 0 /\ running

\* Lines 636-662, 693-704: execute_tool returned to the loop, or raised.
LoopToolReturns ==
    /\ loop_pc = "tool"
    /\ exec_pc = "idle"
    /\ LoopLeavesGate
    /\ UNCHANGED <<running, conversation_history, response, nrequests>>
    /\ IF result = Raised
         THEN /\ EnterBackoff
              /\ UNCHANGED <<tool_results, block_idx, remaining, slept>>
         ELSE /\ tool_results' = Append(tool_results, response.content[block_idx].id)
              /\ slept' = 0
              /\ UNCHANGED backoff_left
              /\ IF response.content[block_idx].name = "wait"
                    /\ wait_continues(response.content[block_idx].units)
                   THEN /\ remaining' = response.content[block_idx].units
                        /\ loop_pc' = "wait_sleep"
                        /\ UNCHANGED block_idx
                   ELSE /\ remaining' = 0
                        /\ loop_pc' = "blocks"
                        /\ block_idx' = block_idx + 1

\* Lines 659-662: a chunk of the wait is over.
LoopWaitWake ==
    /\ loop_pc = "wait_sleep"
    /\ slept' = slept + Min(remaining, WAIT_CHUNK)
    /\ LET rem == remaining - Min(remaining, WAIT_CHUNK)
       IN  IF wait_continues(rem)
             THEN /\ remaining' = rem
                  /\ UNCHANGED <<loop_pc, block_idx>>
             ELSE /\ remaining' = 0
                  /\ loop_pc' = "blocks"
                  /\ block_idx' = block_idx + 1
    /\ UNCHANGED <<running, conversation_history, response, tool_results,
                   backoff_left, nrequests>>
    /\ LoopLeavesGate

LoopRequestReturns == \E resp \in Responses : LoopResponse(resp)

\* SpecLoop: one agent, its loop task, and pause / resume at any moment.
LoopInit ==
    /\ mode \in NexusMode
    /\ clients \in {{}, Clients}
    /\ ws_broadcast \in BOOLEAN
    /\ CountersInit
    /\ LoopVarsInit
    /\ MgrVarsInit
    /\ ActVarsInit
    /\ SvcVarsInit
    /\ persisted = "none"
    /\ profile = TRUE

LoopStep ==
    \/ LoopStart
    \/ LoopTop
    \/ LoopRequestReturns
    \/ LoopRequestFails
    \/ LoopBackoffWake
    \/ LoopBlock
    \/ LoopExecWsStart
    \/ LoopExecDispatchReturns
    \/ LoopExecDispatchRaises
    \/ LoopExecWsEvent
    \/ LoopToolReturns
    \/ LoopWaitWake

LoopNext ==
    \/ LoopTaskCreate
    \/ AgentPause
    \/ AgentResume
    \/ LoopStep

SpecLoop == LoopInit /\ [][LoopNext]_vars

\* Every await of the loop task is eventually over.
FairSpecLoop == SpecLoop /\ WF_vars(LoopStep)

\* SpecTurns: the same loop over up to MaxTurns reasoning requests.
TurnsTop == LoopTopWithin(MaxTurns)

TurnsNext ==
    \/ LoopTaskCreate
    \/ AgentPause
    \/ AgentResume
    \/ LoopStart
    \/ TurnsTop
    \/ LoopRequestReturns
    \/ LoopRequestFails
    \/ LoopBackoffWake
    \/ LoopBlock
    \/ LoopExecWsStart
    \/ LoopExecDispatchReturns
    \/ LoopExecDispatchRaises
    \/ LoopExecWsEvent
    \/ LoopToolReturns
    \/ LoopWaitWake

SpecTurns == LoopInit /\ [][TurnsNext]_vars


(***************************************************************************)
(* The conversation over many cycles.  run_forever only appends to the     *)
(* conversation and slices it in trim_history, so an entry is modelled by  *)
(* its number in the order of the appends (the kickoff is entry 0), and a  *)
(* cycle by the writes it makes: the assistant entry after the response,   *)
(* then the user entry and the trim unless the cycle is left before them.  *)
(***************************************************************************)
Entry(n) == [role |-> "absent", kind |-> "entry", ids |-> <<n>>]
NumberOf(e) == IF e.ids = <<>> THEN 0 ELSE e.ids[1]
LastNumber(h) == NumberOf(h[Len(h)])

HistoryLeavesRest ==
    UNCHANGED <<gate_vars, mgr_vars, act_vars, svc_vars, response, block_idx, tool_results, remaining, slept,
                backoff_left, nrequests, starts>>

\* Lines 605-613: the while test, then the reasoning request is submitted.
HistoryTop ==
    /\ loop_pc = "top"
    /\ IF while_running
         THEN /\ LastNumber(conversation_history) + 2 <= MaxEntries
              /\ loop_pc' = "request"
         ELSE loop_pc' = "done"
    /\ UNCHANGED <<running, conversation_history>>
    /\ HistoryLeavesRest

\* Lines 693-704: messages.create raised; the recovery loop is over.
HistoryRequestFails ==
    /\ loop_pc = "request"
    /\ loop_pc' = "top"
    /\ UNCHANGED <<running, conversation_history>>
    /\ HistoryLeavesRest

\* Lines 615-691: messages.create returned and the cycle ran to its end; a
\* tool_use or end_turn response is followed by a user entry.
HistoryCycle(user_entry) ==
    /\ loop_pc = "request"
    /\ LET n == LastNumber(conversation_history)
           h == Append(conversation_history, Entry(n + 1))
       IN  IF stop_after_response
             THEN /\ conversation_history' = h
                  /\ loop_pc' = "done"
             ELSE /\ conversation_history' =
                        trim_history(IF user_entry
                                        THEN Append(h, Entry(n + 2)) ELSE h)
                  /\ loop_pc' = "top"
    /\ UNCHANGED running
    /\ HistoryLeavesRest

\* Lines 627-662, 693-704: the handling of a tool_use response raised after
\* the assistant entry was appended; the recovery loop is over.
HistoryCycleRaises ==
    /\ loop_pc = "request"
    /\ ~stop_after_response
    /\ conversation_history' =
            Append(conversation_history,
                   Entry(LastNumber(conversation_history) + 1))
    /\ loop_pc' = "top"
    /\ UNCHANGED running
    /\ HistoryLeavesRest

HistoryCycleCompletes == \E user_entry \in BOOLEAN : HistoryCycle(user_entry)

HistoryInit ==
    /\ mode = DRY_RUN
    /\ clients = {}
    /\ ws_broadcast = TRUE
    /\ CountersInit
    /\ LoopVarsInit
    /\ MgrVarsInit
    /\ ActVarsInit
    /\ SvcVarsInit
    /\ persisted = "none"
    /\ profile = TRUE

HistoryNext ==
    \/ LoopTaskCreate
    \/ AgentPause
    \/ AgentResume
    \/ LoopStart
    \/ HistoryTop
    \/ HistoryRequestFails
    \/ HistoryCycleCompletes
    \/ HistoryCycleRaises

SpecHistory == HistoryInit /\ [][HistoryNext]_vars


(***************************************************************************)
(* AgentManager (core/agent_manager.py): the control calls start, resume,  *)
(* run_now, pause and stop are coroutines on one event loop.  An action is *)
(* the code a call runs between two of its awaits; a task created with     *)
(* asyncio.create_task runs its first step only after its creator has      *)
(* suspended or returned.                                                  *)
(***************************************************************************)
\* The manager's calls and the task bookkeeping leave the agent's own state.
MgrLeavesAgent == UNCHANGED <<gate_vars, loop_vars, act_vars, svc_vars>>

Starters == {"start", "resume", "run_now"}

\* `self._task and not self._task.done()` / `self._task and self._task.done()`
TaskActive == m_task # 0 /\ tasks[m_task].st # "done"
TaskDone == m_task # 0 /\ tasks[m_task].st = "done"

At(p, op, pc, val) ==
    [procs EXCEPT ![p] = [op |-> op, pc |-> pc, val |-> val, task |-> 0]]
AwaitingTask(p, t) ==
    [procs EXCEPT ![p] = [op |-> "stop", pc |-> "await_task", val |-> "none",
                          task |-> t]]
Returned(p) == [procs EXCEPT ![p] = IdleProc]

\* History of the calls: pause_settled holds from the moment a pause sets
\* running = False, every start/resume/run_now in flight having already run
\* its last statement that touches the agent or the task, until the next
\* start/resume/run_now is invoked; resume_settled from the completion of a
\* resume, with no other call in flight, until the next call is invoked.
Settle(p, op, invoked, returns) ==
    LET starting == \E q \in Procs \ {p} :
                        /\ procs[q].op \in Starters
                        /\ procs[q].pc \notin {"persist", "broadcast"}
        busy == \E q \in Procs \ {p} : procs[q].op # "idle"
    IN  /\ pause_settled' =
             IF invoked /\ op = "pause" /\ m_agent # 0 /\ ~starting THEN TRUE
             ELSE IF invoked /\ op \in Starters THEN FALSE
             ELSE pause_settled
        /\ resume_settled' =
             IF returns /\ op = "resume" /\ ~busy THEN TRUE
             ELSE IF invoked THEN FALSE
             ELSE resume_settled

\* The event loop runs its ready callbacks in the order they were scheduled:
\* between create_task and the first step of the new task, a call runs at
\* most the one step that was already scheduled.
FirstStepPending(tks) == \E t \in 1..MaxTasks : tks[t].st = "created"
CanRun(p) == FirstStepPending(tasks) => p \notin stepped
Ran(p) == stepped' = IF FirstStepPending(tasks') THEN stepped \cup {p} ELSE {}
TaskRan == stepped' = IF FirstStepPending(tasks') THEN stepped ELSE {}
IsNextTask(t) == \A u \in 1..MaxTasks : tasks[u].st = "created" => t <= u

\* asyncio.create_task(self._run_agent()) assigned to self._task.
CreateTask ==
    /\ ntasks < MaxTasks
    /\ ntasks' = ntasks + 1
    /\ m_task' = ntasks + 1
    /\ tasks' = [tasks EXCEPT ![ntasks + 1] =
                    [st |-> "created", agent |-> 0, cancel |-> FALSE]]

\* self._agent = NexusAgent(...): a new instance, running = False.
CreateAgent ==
    /\ nagents < MaxAgents
    /\ nagents' = nagents + 1
    /\ m_agent' = nagents + 1
    /\ agent_running' = [agent_running EXCEPT ![nagents + 1] = FALSE]

\* start(), from its first line to its first await (or its early return).
StartEntered(p, op, invoked) ==
    /\ procs' = IF TaskActive THEN Returned(p)
                ELSE At(p, op, "load_persisted", "none")
    /\ Settle(p, op, invoked, TaskActive)
    /\ UNCHANGED <<m_agent, agent_running, nagents, m_task, tasks, ntasks,
                   m_status, persisted, profile>>

MgrStart(p) ==
    /\ MgrLeavesAgent
    /\ CanRun(p)
    /\ procs[p].op = "idle"
    /\ StartEntered(p, "start", TRUE)
    /\ Ran(p)

\* resume() when self._agent is set: both branches set running and the
\* status, and create a task unless one is still active.
ResumeAgent(p, op) ==
    /\ agent_running' = [agent_running EXCEPT ![m_agent] = TRUE]
    /\ m_status' = "running"
    /\ IF TaskActive THEN UNCHANGED <<m_task, tasks, ntasks>> ELSE CreateTask
    /\ procs' = At(p, op, "persist", "running")
    /\ Settle(p, op, TRUE, FALSE)
    /\ UNCHANGED <<m_agent, nagents, persisted, profile>>

MgrResume(p) ==
    /\ MgrLeavesAgent
    /\ CanRun(p)
    /\ procs[p].op = "idle"
    /\ IF m_agent # 0 THEN ResumeAgent(p, "resume")
       ELSE StartEntered(p, "resume", TRUE)
    /\ Ran(p)

MgrRunNow(p) ==
    /\ MgrLeavesAgent
    /\ CanRun(p)
    /\ procs[p].op = "idle"
    /\ IF m_agent = 0 THEN StartEntered(p, "run_now", TRUE)
       ELSE IF TaskDone THEN ResumeAgent(p, "run_now")
       ELSE /\ Settle(p, "run_now", TRUE, TRUE)
            /\ UNCHANGED <<m_agent, agent_running, nagents, m_task, tasks,
                           ntasks, m_status, persisted, profile, procs>>
    /\ Ran(p)

MgrPause(p) ==
    /\ MgrLeavesAgent
    /\ CanRun(p)
    /\ procs[p].op = "idle"
    /\ IF m_agent # 0
       THEN /\ agent_running' = [agent_running EXCEPT ![m_agent] = FALSE]
            /\ m_status' = "paused"
            /\ procs' = At(p, "pause", "persist", "paused")
            /\ Settle(p, "pause", TRUE, FALSE)
       ELSE /\ Settle(p, "pause", TRUE, TRUE)
            /\ UNCHANGED <<agent_running, m_status, procs>>
    /\ UNCHANGED <<m_agent, nagents, m_task, tasks, ntasks, persisted, profile>>
    /\ Ran(p)

\* stop() from `if self._task:` to the await of _persist_status.
StopTask(p) ==
    IF m_task = 0 \/ tasks[m_task].st = "done"
    THEN /\ m_status' = "stopped"
         /\ procs' = At(p, "stop", "persist", "stopped")
         /\ UNCHANGED tasks
    ELSE /\ tasks' = [tasks EXCEPT ![m_task].cancel = TRUE]
         /\ procs' = AwaitingTask(p, m_task)
         /\ UNCHANGED m_status

MgrStop(p) ==
    /\ MgrLeavesAgent
    /\ CanRun(p)
    /\ procs[p].op = "idle"
    /\ Settle(p, "stop", TRUE, FALSE)
    /\ IF m_agent # 0
       THEN /\ agent_running' = [agent_running EXCEPT ![m_agent] = FALSE]
            /\ IF "neo4j" \in clients
               THEN /\ procs' = At(p, "stop", "disconnect", "none")
                    /\ UNCHANGED <<tasks, m_status>>
               ELSE StopTask(p)
       ELSE /\ UNCHANGED agent_running
            /\ StopTask(p)
    /\ UNCHANGED <<m_agent, nagents, m_task, ntasks, persisted, profile>>
    /\ Ran(p)

MgrStopDisconnected(p) ==
    /\ MgrLeavesAgent
    /\ CanRun(p)
    /\ procs[p].pc = "disconnect"
    /\ StopTask(p)
    /\ UNCHANGED <<m_agent, agent_running, nagents, m_task, ntasks, persisted,
                   profile, pause_settled, resume_settled>>
    /\ Ran(p)

MgrStopTaskAwaited(p) ==
    /\ MgrLeavesAgent
    /\ CanRun(p)
    /\ procs[p].pc = "await_task"
    /\ tasks[procs[p].task].st = "done"
    /\ m_status' = "stopped"
    /\ procs' = At(p, "stop", "persist", "stopped")
    /\ UNCHANGED <<m_agent, agent_running, nagents, m_task, tasks, ntasks,
                   persisted, profile, pause_settled, resume_settled>>
    /\ Ran(p)

\* start() after `await self._init_agent()` at line 104: lines 105-110.
StartAfterInit(p, agent) ==
    IF agent = 0
    THEN /\ procs' = Returned(p)
         /\ Settle(p, procs[p].op, FALSE, TRUE)
         /\ UNCHANGED <<m_task, tasks, ntasks, m_status>>
    ELSE /\ CreateTask
         /\ m_status' = "running"
         /\ procs' = At(p, procs[p].op, "persist", "running")
         /\ UNCHANGED <<pause_settled, resume_settled>>

\* _load_persisted_status has returned (None when the read failed).
MgrLoadedPersisted(p) ==
    /\ MgrLeavesAgent
    /\ CanRun(p)
    /\ procs[p].pc = "load_persisted"
    /\ \E ok \in BOOLEAN :
         IF ok /\ persisted = "paused"
         THEN /\ m_status' = "paused"
              /\ IF m_agent # 0
                 THEN /\ procs' = Returned(p)
                      /\ Settle(p, procs[p].op, FALSE, TRUE)
                 ELSE /\ procs' = At(p, procs[p].op, "paused_init", "none")
                      /\ UNCHANGED <<pause_settled, resume_settled>>
         ELSE /\ procs' = At(p, procs[p].op, "load_profile", "none")
              /\ UNCHANGED <<m_status, pause_settled, resume_settled>>
    /\ UNCHANGED <<m_agent, agent_running, nagents, m_task, tasks, ntasks,
                   persisted, profile>>
    /\ Ran(p)

\* _load_user_profile of start() has returned.
MgrLoadedProfile(p) ==
    /\ MgrLeavesAgent
    /\ CanRun(p)
    /\ procs[p].pc = "load_profile"
    /\ IF ~profile
       THEN /\ m_status' = "waiting_for_user"
            /\ procs' = Returned(p)
            /\ Settle(p, procs[p].op, FALSE, TRUE)
            /\ UNCHANGED <<m_task, tasks, ntasks>>
       ELSE IF m_agent # 0
       THEN StartAfterInit(p, m_agent)
       ELSE /\ procs' = At(p, procs[p].op, "init", "none")
            /\ UNCHANGED <<m_task, tasks, ntasks, m_status, pause_settled,
                           resume_settled>>
    /\ UNCHANGED <<m_agent, agent_running, nagents, persisted, profile>>
    /\ Ran(p)

\* _init_agent from the construction of NexusAgent to the next await of
\* start(), in the branch the call is in.
starts_although_paused(paused_branch) == FALSE
returns_paused(paused_branch) == paused_branch
InitAgentCreated(p, paused_branch) ==
    /\ CreateAgent
    /\ IF returns_paused(paused_branch)
       THEN /\ procs' = Returned(p)
            /\ Settle(p, procs[p].op, FALSE, TRUE)
            /\ UNCHANGED <<m_task, tasks, ntasks, m_status>>
       ELSE StartAfterInit(p, nagents + 1)

\* _load_user_profile of _init_agent has returned.
MgrInitLoadedProfile(p) ==
    /\ MgrLeavesAgent
    /\ CanRun(p)
    /\ procs[p].pc \in {"init", "paused_init"}
    /\ LET paused_branch == procs[p].pc = "paused_init" IN
       IF ~profile
       THEN /\ IF paused_branch
               THEN /\ procs' = Returned(p)
                    /\ Settle(p, procs[p].op, FALSE, TRUE)
                    /\ UNCHANGED <<m_task, tasks, ntasks, m_status>>
               ELSE StartAfterInit(p, m_agent)
            /\ UNCHANGED <<m_agent, agent_running, nagents>>
       ELSE IF "neo4j" \in clients
       THEN /\ procs' = At(p, procs[p].op,
                           IF paused_branch THEN "paused_connect" ELSE "connect",
                           "none")
            /\ UNCHANGED <<m_agent, agent_running, nagents, m_task, tasks,
                           ntasks, m_status, pause_settled, resume_settled>>
       ELSE InitAgentCreated(p, paused_branch)
    /\ UNCHANGED <<persisted, profile>>
    /\ Ran(p)

\* neo4j.connect() of _init_agent has returned or raised.
MgrInitConnected(p) ==
    /\ MgrLeavesAgent
    /\ CanRun(p)
    /\ procs[p].pc \in {"connect", "paused_connect"}
    /\ InitAgentCreated(p, procs[p].pc = "paused_connect")
    /\ UNCHANGED <<persisted, profile>>
    /\ Ran(p)

\* _persist_status has returned; a failed upsert is swallowed.
MgrPersisted(p) ==
    /\ MgrLeavesAgent
    /\ CanRun(p)
    /\ procs[p].pc = "persist"
    /\ \E ok \in BOOLEAN :
         persisted' = IF ok THEN procs[p].val ELSE persisted
    /\ procs' = At(p, procs[p].op, "broadcast", procs[p].val)
    /\ UNCHANGED <<m_agent, agent_running, nagents, m_task, tasks, ntasks,
                   m_status, profile, pause_settled, resume_settled>>
    /\ Ran(p)

\* manager.broadcast has returned: the call is complete.
MgrBroadcasted(p) ==
    /\ MgrLeavesAgent
    /\ CanRun(p)
    /\ procs[p].pc = "broadcast"
    /\ procs' = Returned(p)
    /\ Settle(p, procs[p].op, FALSE, TRUE)
    /\ UNCHANGED <<m_agent, agent_running, nagents, m_task, tasks, ntasks,
                   m_status, persisted, profile>>
    /\ Ran(p)

\* First step of a loop task: _run_agent reads self._agent and run_forever
\* sets running = True (orchestrator.py line 579).
TaskFirstStep(t) ==
    /\ MgrLeavesAgent
    /\ tasks[t].st = "created"
    /\ IsNextTask(t)
    /\ ~tasks[t].cancel
    /\ tasks' = [tasks EXCEPT ![t].st = "looping", ![t].agent = m_agent]
    /\ agent_running' = [agent_running EXCEPT ![m_agent] = TRUE]
    /\ UNCHANGED <<m_agent, nagents, m_task, ntasks, m_status, persisted,
                   profile, procs, pause_settled, resume_settled>>
    /\ TaskRan

\* The loop regains control, finds running false and run_forever returns.
TaskExit(t) ==
    /\ MgrLeavesAgent
    /\ tasks[t].st = "looping"
    /\ ~tasks[t].cancel
    /\ ~agent_running[tasks[t].agent]
    /\ tasks' = [tasks EXCEPT ![t].st = "done"]
    /\ UNCHANGED <<m_agent, agent_running, nagents, m_task, ntasks, m_status,
                   persisted, profile, procs, pause_settled, resume_settled>>
    /\ TaskRan

\* CancelledError is thrown into the task at its next step.
TaskCancelled(t) ==
    /\ MgrLeavesAgent
    /\ tasks[t].st \in {"created", "looping"}
    /\ tasks[t].st = "created" => IsNextTask(t)
    /\ tasks[t].cancel
    /\ tasks' = [tasks EXCEPT ![t].st = "done", ![t].cancel = FALSE]
    /\ UNCHANGED <<m_agent, agent_running, nagents, m_task, ntasks, m_status,
                   persisted, profile, procs, pause_settled, resume_settled>>
    /\ TaskRan

PersistedValues == {"none", "running", "paused", "stopped", "crashed"}

\* A fresh process: the manager as constructed, the database as an earlier
\* process left it.
MgrInit ==
    /\ mode = DRY_RUN
    /\ clients \in {{}, Clients}
    /\ ws_broadcast = TRUE
    /\ CountersInit
    /\ LoopVarsInit
    /\ MgrVarsInit
    /\ ActVarsInit
    /\ SvcVarsInit
    /\ persisted \in PersistedValues
    /\ profile \in BOOLEAN

MgrNext ==
    \/ \E p \in Procs : MgrStart(p)
    \/ \E p \in Procs : MgrResume(p)
    \/ \E p \in Procs : MgrRunNow(p)
    \/ \E p \in Procs : MgrPause(p)
    \/ \E p \in Procs : MgrStop(p)
    \/ \E p \in Procs : MgrStopDisconnected(p)
    \/ \E p \in Procs : MgrStopTaskAwaited(p)
    \/ \E p \in Procs : MgrLoadedPersisted(p)
    \/ \E p \in Procs : MgrLoadedProfile(p)
    \/ \E p \in Procs : MgrInitLoadedProfile(p)
    \/ \E p \in Procs : MgrInitConnected(p)
    \/ \E p \in Procs : MgrPersisted(p)
    \/ \E p \in Procs : MgrBroadcasted(p)
    \/ \E t \in 1..MaxTasks : TaskFirstStep(t)
    \/ \E t \in 1..MaxTasks : TaskExit(t)
    \/ \E t \in 1..MaxTasks : TaskCancelled(t)

SpecMgr == MgrInit /\ [][MgrNext]_vars

\* SpecControl: concurrent pause, resume and stop calls (resume goes through
\* start() while there is no agent), every upsert of _persist_status
\* succeeding.
MgrPersistedOk(p) == MgrPersisted(p) /\ persisted' = procs[p].val

ControlNext ==
    \/ \E p \in Procs : MgrResume(p)
    \/ \E p \in Procs : MgrPause(p)
    \/ \E p \in Procs : MgrStop(p)
    \/ \E p \in Procs : MgrStopDisconnected(p)
    \/ \E p \in Procs : MgrStopTaskAwaited(p)
    \/ \E p \in Procs : MgrLoadedPersisted(p)
    \/ \E p \in Procs : MgrLoadedProfile(p)
    \/ \E p \in Procs : MgrInitLoadedProfile(p)
    \/ \E p \in Procs : MgrInitConnected(p)
    \/ \E p \in Procs : MgrPersistedOk(p)
    \/ \E p \in Procs : MgrBroadcasted(p)
    \/ \E t \in 1..MaxTasks : TaskFirstStep(t)
    \/ \E t \in 1..MaxTasks : TaskExit(t)
    \/ \E t \in 1..MaxTasks : TaskCancelled(t)

SpecControl == MgrInit /\ [][ControlNext]_vars

\* SpecRestart: the same manager with one caller, so that a control call is
\* invoked only after the one before it has returned.
Caller == CHOOSE p \in Procs : \A q \in Procs : p <= q

RestartNext ==
    \/ MgrStart(Caller)
    \/ MgrResume(Caller)
    \/ MgrRunNow(Caller)
    \/ MgrPause(Caller)
    \/ MgrStop(Caller)
    \/ MgrStopDisconnected(Caller)
    \/ MgrStopTaskAwaited(Caller)
    \/ MgrLoadedPersisted(Caller)
    \/ MgrLoadedProfile(Caller)
    \/ MgrInitLoadedProfile(Caller)
    \/ MgrInitConnected(Caller)
    \/ MgrPersisted(Caller)
    \/ MgrBroadcasted(Caller)
    \/ \E t \in 1..MaxTasks : TaskFirstStep(t)
    \/ \E t \in 1..MaxTasks : TaskExit(t)
    \/ \E t \in 1..MaxTasks : TaskCancelled(t)

SpecRestart == MgrInit /\ [][RestartNext]_vars

\* Lines 69-75: the property AgentManager.status.
status_of(agent, agent_run, task, tks, st) ==
    IF agent # 0 /\ agent_run[agent] THEN "running"
    ELSE IF task # 0 /\ tks[task].st # "done" THEN "running"
    ELSE st

(***************************************************************************)
(* ActionAgent.decide (app/agents/action.py).  A profile is a dict: a      *)
(* function from the keys it has.  The formatted `reason` is left out.     *)
(***************************************************************************)
\* settings.auto_apply_threshold and settings.suggest_threshold.
auto_apply_threshold == 80
suggest_threshold == 50

Get(d, k, default) == IF k \in DOMAIN d THEN d[k] ELSE default

ActionDecision(a, s) == [action |-> a, should_schedule |-> s]

decide_strictly_above(sc, prof) ==
    LET auto_t == Get(prof, "auto_apply_threshold", auto_apply_threshold)
        suggest_t == Get(prof, "suggest_threshold", suggest_threshold)
    IN  IF sc > auto_t THEN ActionDecision("auto_apply", TRUE)
        ELSE IF sc > suggest_t THEN ActionDecision("suggest", FALSE)
        ELSE ActionDecision("skip", FALSE)

decide(sc, prof) ==
    LET auto_t == Get(prof, "auto_apply_threshold", auto_apply_threshold)
        suggest_t == Get(prof, "suggest_threshold", suggest_threshold)
    IN  IF sc >= auto_t THEN ActionDecision("auto_apply", TRUE)
        ELSE IF sc >= suggest_t THEN ActionDecision("suggest", FALSE)
        ELSE ActionDecision("skip", FALSE)

\* The scores and the profiles decide is applied to: every score of the
\* 0..100 scale, every tenth threshold, either key present or not.
Scores == 0..MaxScore
Thresholds == {t \in 0..MaxScore : t % 10 = 0}
ThresholdKeys == {"auto_apply_threshold", "suggest_threshold"}
Profiles == UNION {[K -> Thresholds] : K \in SUBSET ThresholdKeys}

Decide ==
    /\ decision = NoDecision
    /\ decision' = decide(score, user_profile)
    /\ UNCHANGED <<gate_vars, loop_vars, mgr_vars, svc_vars, score, user_profile, yutori,
                   action_applies_today, retry_pc, attempt, max_retries, last_error,
                   event_url, retry_result, outcomes>>

DecideInit ==
    /\ mode = DRY_RUN
    /\ clients = {}
    /\ ws_broadcast = FALSE
    /\ CountersInit
    /\ LoopVarsInit
    /\ MgrVarsInit
    /\ SvcVarsInit
    /\ persisted = "none"
    /\ profile = TRUE
    /\ score \in Scores
    /\ user_profile \in Profiles
    /\ decision = NoDecision
    /\ yutori = FALSE
    /\ action_applies_today = 0
    /\ retry_pc = "idle"
    /\ attempt = 0
    /\ max_retries = 0
    /\ last_error = ""
    /\ event_url = ""
    /\ retry_result = NoApply
    /\ outcomes = <<>>

DecideNext == Decide

SpecDecide == DecideInit /\ [][DecideNext]_vars

(***************************************************************************)
(* ActionAgent.apply_to_event and apply_with_retry, one action per segment *)
(* between awaits; the only await is that of YutoriClient.browsing_create. *)
(***************************************************************************)
ApplyResult(st, rsn) == [status |-> st, reason |-> rsn, url |-> "absent"]
ManualRequired(rsn, url) == [status |-> "manual_required", reason |-> rsn, url |-> url]

\* How an apply_to_event call ended: its result's status and reason, or
\* "raised" and the text of the exception.
Outcome(st, rsn) == [status |-> st, reason |-> rsn]

\* event.get("url", "") of the events passed in, and str(exc) of the
\* exceptions browsing_create raises.
Urls == {"", "https://lu.ma/ai-dinner-sf"}
Errors == {"timeout", "http_500"}

\* settings.allow_side_effects
settings_allow_side_effects == mode \in {CANARY, LIVE}

\* Line 68: self._applies_today >= settings.max_auto_applies_per_day
rate_limited_above(applies) == applies > max_auto_applies_per_day
rate_limited(applies) == applies >= max_auto_applies_per_day

\* Lines 61-69: what apply_to_event returns before its await; NoApply when
\* it goes on to await browsing_create.
apply_to_event_early ==
    IF ~yutori
      THEN ApplyResult("error", "yutori_client_not_configured")
      ELSE IF ~settings_allow_side_effects
             THEN ApplyResult("dry_run", "side_effects_disabled")
             ELSE IF rate_limited(action_applies_today)
                    THEN ApplyResult("rate_limited", "max_auto_applies_per_day reached")
                    ELSE NoApply

\* Line 129: the result is retried.
retry_unless_applied(r) == r.status # "applied"
is_error(r) == r.status = "error"

\* Lines 131, 133: last_error after a failed attempt with reason rsn.
first_error_kept(old, rsn) == IF old = "" THEN rsn ELSE old
next_last_error(old, rsn) == rsn

\* Line 126: the for loop has another attempt.
has_attempt(a, n) == a < n + 1

RetryLeavesRest ==
    UNCHANGED <<gate_vars, loop_vars, mgr_vars, svc_vars, score, user_profile,
                decision, yutori>>

\* Lines 121-125: apply_with_retry(event, user_profile, max_retries = n).
ApplyWithRetryCall(n, url) ==
    /\ retry_pc \in {"idle", "returned"}
    /\ retry_pc' = "loop"
    /\ attempt' = 0
    /\ max_retries' = n
    /\ last_error' = ""
    /\ event_url' = url
    /\ retry_result' = NoApply
    /\ outcomes' = <<>>
    /\ UNCHANGED action_applies_today
    /\ RetryLeavesRest

\* Lines 126-131, 140-144 and 61-84: the head of the for loop; the next
\* attempt calls apply_to_event, which returns at once or awaits
\* browsing_create; after the last attempt manual_required is returned.
RetryAttempt ==
    /\ retry_pc = "loop"
    /\ UNCHANGED <<action_applies_today, max_retries, event_url>>
    /\ RetryLeavesRest
    /\ IF ~has_attempt(attempt, max_retries)
         THEN /\ retry_result' = ManualRequired(last_error, event_url)
              /\ retry_pc' = "returned"
              /\ UNCHANGED <<attempt, last_error, outcomes>>
         ELSE LET r == apply_to_event_early
              IN  IF r = NoApply
                    THEN /\ retry_pc' = "browsing"
                         /\ UNCHANGED <<attempt, last_error, retry_result, outcomes>>
                    ELSE /\ outcomes' = Append(outcomes, Outcome(r.status, r.reason))
                         /\ IF is_error(r)
                              THEN /\ last_error' = next_last_error(last_error, r.reason)
                                   /\ attempt' = attempt + 1
                                   /\ UNCHANGED <<retry_pc, retry_result>>
                              ELSE /\ retry_result' = r
                                   /\ retry_pc' = "returned"
                                   /\ UNCHANGED <<attempt, last_error>>

\* Lines 84-101, 129-130: browsing_create returns; the counter is
\* incremented and the "applied" result returned through apply_with_retry.
BrowsingCreateReturns ==
    /\ retry_pc = "browsing"
    /\ action_applies_today' = action_applies_today + 1
    /\ LET r == ApplyResult("applied", "absent")
       IN  /\ outcomes' = Append(outcomes, Outcome(r.status, r.reason))
           /\ IF is_error(r)
                THEN /\ last_error' = next_last_error(last_error, r.reason)
                     /\ attempt' = attempt + 1
                     /\ retry_pc' = "loop"
                     /\ UNCHANGED retry_result
                ELSE /\ retry_result' = r
                     /\ retry_pc' = "returned"
                     /\ UNCHANGED <<attempt, last_error>>
    /\ UNCHANGED <<max_retries, event_url>>
    /\ RetryLeavesRest

\* Lines 132-139: browsing_create raises; the exception is caught.
BrowsingCreateRaises(msg) ==
    /\ retry_pc = "browsing"
    /\ outcomes' = Append(outcomes, Outcome("raised", msg))
    /\ last_error' = next_last_error(last_error, msg)
    /\ attempt' = attempt + 1
    /\ retry_pc' = "loop"
    /\ UNCHANGED <<action_applies_today, max_retries, event_url, retry_result>>
    /\ RetryLeavesRest

RetryInit ==
    /\ mode \in NexusMode
    /\ clients = {}
    /\ ws_broadcast = FALSE
    /\ CountersInit
    /\ LoopVarsInit
    /\ MgrVarsInit
    /\ SvcVarsInit
    /\ persisted = "none"
    /\ profile = TRUE
    /\ score = 0
    /\ user_profile = NoProfile
    /\ decision = NoDecision
    /\ yutori \in BOOLEAN
    /\ action_applies_today = 0
    /\ retry_pc = "idle"
    /\ attempt = 0
    /\ max_retries = 0
    /\ last_error = ""
    /\ event_url = ""
    /\ retry_result = NoApply
    /\ outcomes = <<>>

RetryCalled == \E n \in 0..MaxRetries, url \in Urls : ApplyWithRetryCall(n, url)
BrowsingCreateFails == \E msg \in Errors : BrowsingCreateRaises(msg)

RetryStep ==
    \/ RetryAttempt
    \/ BrowsingCreateReturns
    \/ BrowsingCreateFails

RetryNext ==
    \/ RetryCalled
    \/ RetryStep

SpecRetry == RetryInit /\ [][RetryNext]_vars

\* Every call of browsing_create ends, and the caller is scheduled.
FairSpecRetry == SpecRetry /\ WF_vars(RetryStep)

(***************************************************************************)
(* The three entry points of ActionAgent called one after the other:       *)
(* apply_to_event, apply_with_retry and process_event.  `decision` is the  *)
(* local of the process_event call in progress, NoDecision for a call of   *)
(* one of the other two.                                                   *)
(***************************************************************************)
ActionLeavesRest == UNCHANGED <<gate_vars, loop_vars, mgr_vars, svc_vars, yutori>>

\* No call is in progress.
ActionIdle == retry_pc \in {"idle", "returned"}

\* Lines 121-125: the locals of a new apply_with_retry call.
retry_started(n, url) ==
    /\ retry_pc' = "loop"
    /\ attempt' = 0
    /\ max_retries' = n
    /\ last_error' = ""
    /\ event_url' = url
    /\ retry_result' = NoApply
    /\ outcomes' = <<>>
    /\ UNCHANGED action_applies_today

\* apply_with_retry(event, user_profile, max_retries = n), called directly.
ActionApplyWithRetry(n, url) ==
    /\ ActionIdle
    /\ retry_started(n, url)
    /\ decision' = NoDecision
    /\ UNCHANGED <<score, user_profile>>
    /\ ActionLeavesRest

\* Lines 57-84: apply_to_event(event, user_profile), called directly; it
\* returns at once or awaits browsing_create.
ActionApplyToEvent(url) ==
    /\ ActionIdle
    /\ attempt' = 0
    /\ max_retries' = 0
    /\ last_error' = ""
    /\ event_url' = url
    /\ decision' = NoDecision
    /\ LET r == apply_to_event_early
       IN  IF r = NoApply
             THEN /\ retry_pc' = "applying"
                  /\ retry_result' = NoApply
                  /\ outcomes' = <<>>
             ELSE /\ retry_pc' = "returned"
                  /\ retry_result' = r
                  /\ outcomes' = <<Outcome(r.status, r.reason)>>
    /\ UNCHANGED <<action_applies_today, score, user_profile>>
    /\ ActionLeavesRest

\* Lines 84-101: browsing_create returns to the direct call.
ActionApplyReturns ==
    /\ retry_pc = "applying"
    /\ action_applies_today' = action_applies_today + 1
    /\ retry_result' = ApplyResult("applied", "absent")
    /\ outcomes' = Append(outcomes, Outcome("applied", "absent"))
    /\ retry_pc' = "returned"
    /\ UNCHANGED <<attempt, max_retries, last_error, event_url, score, user_profile,
                   decision>>
    /\ ActionLeavesRest

\* Line 84: browsing_create raises; the exception leaves apply_to_event.
ActionApplyRaises(msg) ==
    /\ retry_pc = "applying"
    /\ outcomes' = Append(outcomes, Outcome("raised", msg))
    /\ last_error' = msg
    /\ retry_pc' = "idle"
    /\ UNCHANGED <<action_applies_today, attempt, max_retries, event_url, retry_result,
                   score, user_profile, decision>>
    /\ ActionLeavesRest

\* Lines 146-171: process_event(enriched_event, user_profile) up to its
\* first await: decide, then apply_with_retry with the default max_retries
\* for auto_apply and suggest, and the return for skip.  schedule_event
\* (103-108) returns a constant.
DEFAULT_MAX_RETRIES == 2
applies_for(d) == d.action \in {"auto_apply", "suggest"}
ProcessEvent(sc, prof, url) ==
    /\ ActionIdle
    /\ score' = sc
    /\ user_profile' = prof
    /\ decision' = decide(sc, prof)
    /\ IF applies_for(decide(sc, prof))
         THEN retry_started(DEFAULT_MAX_RETRIES, url)
         ELSE /\ retry_pc' = "returned"
              /\ attempt' = 0
              /\ max_retries' = 0
              /\ last_error' = ""
              /\ event_url' = url
              /\ retry_result' = NoApply
              /\ outcomes' = <<>>
              /\ UNCHANGED action_applies_today
    /\ ActionLeavesRest

\* The scores and profiles given to process_event.
ActionScores == {30, 50, 80}
ActionProfiles == {NoProfile, [k \in {"suggest_threshold"} |-> 20]}

ActionApplyWithRetryCalled ==
    \E n \in 0..MaxRetries, url \in Urls : ActionApplyWithRetry(n, url)
ActionApplyToEventCalled == \E url \in Urls : ActionApplyToEvent(url)
ActionApplyFails == \E msg \in Errors : ActionApplyRaises(msg)
ProcessEventCalled ==
    \E sc \in ActionScores, prof \in ActionProfiles, url \in Urls : ProcessEvent(sc, prof, url)

ActionNext ==
    \/ ActionApplyToEventCalled
    \/ ActionApplyWithRetryCalled
    \/ ProcessEventCalled
    \/ ActionApplyReturns
    \/ ActionApplyFails
    \/ RetryAttempt
    \/ BrowsingCreateReturns
    \/ BrowsingCreateFails

SpecAction == RetryInit /\ [][ActionNext]_vars

(***************************************************************************)
(* PreferenceEngine.process_feedback (app/services/preference_engine.py).  *)
(* An affinity is a float: it is kept as its number of tenths `t` and the  *)
(* sign `e` of the rounding error the float additions have left in it, so  *)
(* that [t |-> -5, e |-> 1] is a float just above -0.5.  An addition of a  *)
(* non-zero delta may leave any rounding error; adding 0.0 is exact.       *)
(***************************************************************************)
Float(t, e) == [t |-> t, e |-> e]
RoundingErrors == {-1, 0, 1}

\* v < k / 10 and v >= k / 10
Below(v, k) == v.t < k \/ (v.t = k /\ v.e < 0)
AtLeast(v, k) == ~Below(v, k)

\* The deltas, in tenths.
ACCEPT_DELTA == 3
REJECT_DELTA == -5
EDIT_DELTA == -1
RATE_DELTA_MAP == [r \in 1..5 |-> CASE r = 5 -> 5 [] r = 4 -> 3 [] r = 3 -> 0
                                     [] r = 2 -> -3 [] OTHER -> -5]

\* current + delta, with rounding error e.
Plus(v, delta, e) == IF delta = 0 THEN v ELSE Float(v.t + delta, e)

\* max(-1.0, min(1.0, x))
clamp_upper_only(x) == IF AtLeast(x, 10) THEN Float(10, 0) ELSE x
Clamp(x) ==
    IF AtLeast(x, 10) THEN Float(10, 0)
    ELSE IF Below(x, -10) THEN Float(-10, 0) ELSE x

\* The engine's two collections that adjust_topic_affinity changes.
Affinities(aff, avoided) == [aff |-> aff, avoided |-> avoided]

\* Lines 88-91: the avoided set after topic has got the value new_val.
avoid_without_hysteresis(avoided, topic, new_val) ==
    IF Below(new_val, -5) THEN avoided \cup {topic} ELSE avoided \ {topic}
avoid_after(avoided, topic, new_val) ==
    IF Below(new_val, -5) THEN avoided \cup {topic}
    ELSE IF topic \in avoided /\ AtLeast(new_val, -3) THEN avoided \ {topic}
    ELSE avoided

\* Lines 84-91: adjust_topic_affinity(topic, delta), e the rounding error.
adjust_topic_affinity(st, topic, delta, e) ==
    LET current == IF topic \in DOMAIN st.aff THEN st.aff[topic] ELSE Float(0, 0)
        new_val == Clamp(Plus(current, delta, e))
    IN  Affinities([k \in DOMAIN st.aff \cup {topic} |->
                        IF k = topic THEN new_val ELSE st.aff[k]],
                   avoid_after(st.avoided, topic, new_val))

\* for topic in topics: self.adjust_topic_affinity(topic, delta); es holds
\* the rounding errors of the adjustments, from position i on.
RECURSIVE adjust_each(_, _, _, _, _)
adjust_each(st, topics, delta, es, i) ==
    IF topics = <<>> THEN st
    ELSE adjust_each(adjust_topic_affinity(st, Head(topics), delta, es[i]),
                     Tail(topics), delta, es, i + 1)

\* _extract_day: the weekday of an ISO datetime, "" when it does not parse.
EventTimes == {"not a date", "2026-03-16T18:00:00Z"}
extract_day(event_time) == IF event_time = "2026-03-16T18:00:00Z" THEN "monday" ELSE ""

\* Lines 100-105: update_time_preferences(event_time, negative=True); the
\* values are kept in tenths.
update_time_preferences(times, event_time) ==
    LET day == extract_day(event_time)
        current == IF day \in DOMAIN times THEN times[day] ELSE 0
        new_val == IF current - 3 < -10 THEN -10 ELSE current - 3
    IN  IF day = "" THEN times
        ELSE [k \in DOMAIN times \cup {day} |-> IF k = day THEN new_val ELSE times[k]]

\* The feedback dicts passed in: rating -1 is a feedback without rating.
Topics == {"ai", "web3"}
TopicLists == {<<>>, <<"ai">>, <<"web3">>, <<"ai", "web3">>, <<"ai", "ai">>}
Actions == {"accept", "reject", "edit", "rate", "dismiss"}
NoRating == -1
Ratings == {NoRating} \cup 0..5
ShortLists == {<<>>, <<"ai">>, <<"web3">>}
Feedback(a, ts, r, rt, et) ==
    [action |-> a, topics |-> ts, reason |-> r, rating |-> rt, event_time |-> et]
Feedbacks ==
    {Feedback(a, ts, "", NoRating, "") : a \in {"accept", "edit", "reject"}, ts \in TopicLists}
    \cup {Feedback("dismiss", ts, "", NoRating, "") : ts \in ShortLists}
    \cup {Feedback("reject", ts, r, NoRating, "") :
            ts \in ShortLists, r \in {"not_my_industry", "too_expensive", "bad_timing"}}
    \cup {Feedback("reject", ts, "bad_timing", NoRating, et) :
            ts \in ShortLists, et \in EventTimes}
    \cup {Feedback("rate", ts, "", r, "") : ts \in ShortLists, r \in Ratings}
    \cup {Feedback("rate", ts, "", 5, "") : ts \in TopicLists}

\* Line 75: RATE_DELTA_MAP.get(rating, 0.0).
rate_delta_without_five(rating) ==
    IF rating \in 1..4 THEN RATE_DELTA_MAP[rating] ELSE 0
rate_delta(rating) ==
    IF rating \in DOMAIN RATE_DELTA_MAP THEN RATE_DELTA_MAP[rating] ELSE 0

\* Lines 55-77: the affinities after the feedback fb.
feedback_affinities(st, fb, es) ==
    LET n == Len(fb.topics)
    IN  CASE fb.action = "accept" -> adjust_each(st, fb.topics, ACCEPT_DELTA, es, 1)
          [] fb.action = "reject" ->
                LET once == adjust_each(st, fb.topics, REJECT_DELTA, es, 1)
                IN  IF fb.reason = "not_my_industry"
                      THEN adjust_each(once, fb.topics, REJECT_DELTA, es, n + 1)
                      ELSE once
          [] fb.action = "edit" -> adjust_each(st, fb.topics, EDIT_DELTA, es, 1)
          [] fb.action = "rate" /\ fb.rating # NoRating ->
                adjust_each(st, fb.topics, rate_delta(fb.rating), es, 1)
          [] OTHER -> st

PrefLeavesRest ==
    UNCHANGED <<gate_vars, loop_vars, mgr_vars, act_vars, recalc_vars, scoring_vars,
                dedup_vars, disc_vars, conn_vars>>

\* The engine's fields that process_feedback reads and writes.
Engine(aff, avoided, times, count) ==
    [aff |-> aff, avoided |-> avoided, times |-> times, count |-> count]

\* Lines 43-77: the engine after process_feedback(fb).
process_feedback(eng, fb, es) ==
    LET st == feedback_affinities(Affinities(eng.aff, eng.avoided), fb, es)
    IN  Engine(st.aff, st.avoided,
               IF fb.action = "reject" /\ fb.reason = "bad_timing" /\ fb.event_time # ""
                 THEN update_time_preferences(eng.times, fb.event_time)
                 ELSE eng.times,
               eng.count + 1)

ProcessFeedback(fb, es) ==
    /\ feedback_count < MaxFeedback
    /\ LET eng == process_feedback(Engine(topic_affinities, avoided_topics,
                                          preferred_times, feedback_count), fb, es)
       IN  /\ topic_affinities' = eng.aff
           /\ avoided_topics' = eng.avoided
           /\ preferred_times' = eng.times
           /\ feedback_count' = eng.count
    /\ UNCHANGED weights
    /\ PrefLeavesRest

\* The number of calls of adjust_topic_affinity the feedback fb leads to.
Adjustments(fb) ==
    CASE fb.action \in {"accept", "edit"} -> Len(fb.topics)
      [] fb.action = "reject" ->
            IF fb.reason = "not_my_industry" THEN 2 * Len(fb.topics) ELSE Len(fb.topics)
      [] fb.action = "rate" /\ fb.rating \in DOMAIN RATE_DELTA_MAP ->
            IF RATE_DELTA_MAP[fb.rating] = 0 THEN 0 ELSE Len(fb.topics)
      [] OTHER -> 0

FeedbackGiven ==
    \E fb \in Feedbacks : \E es \in [1..Adjustments(fb) -> RoundingErrors] :
        ProcessFeedback(fb, es)

PrefInit ==
    /\ mode = DRY_RUN
    /\ clients = {}
    /\ ws_broadcast = FALSE
    /\ CountersInit
    /\ LoopVarsInit
    /\ MgrVarsInit
    /\ ActVarsInit
    /\ SvcVarsInit
    /\ persisted = "none"
    /\ profile = TRUE

PrefNext == FeedbackGiven

SpecPref == PrefInit /\ [][PrefNext]_vars

(***************************************************************************)
(* PreferenceEngine.recalculate_weights.  The averages are rationals: the  *)
(* variances and the raw weights are kept as numerators over the common    *)
(* denominator `den` = len(accepted) * len(rejected).                      *)
(***************************************************************************)
Dimensions == {"topic", "people", "event_type", "time", "historical"}

\* sum(d.values()) of a dict over the five dimensions.
SumOf(d) == d["topic"] + d["people"] + d["event_type"] + d["time"] + d["historical"]

\* Lines 190-195: len and sum of the scores of the entries with action a.
RECURSIVE CountOf(_, _)
CountOf(history, a) ==
    IF history = <<>> THEN 0
    ELSE (IF Head(history).action = a THEN 1 ELSE 0) + CountOf(Tail(history), a)

RECURSIVE ScoreSum(_, _, _)
ScoreSum(history, a, dim) ==
    IF history = <<>> THEN 0
    ELSE (IF Head(history).action = a THEN Head(history).scores[dim] ELSE 0)
            + ScoreSum(Tail(history), a, dim)

Max(a, b) == IF a > b THEN a ELSE b

\* Lines 185-198: the denominator of the variances of this history.
VarianceDen(history) ==
    IF CountOf(history, "accept") = 0 \/ CountOf(history, "reject") = 0
      THEN 1 ELSE CountOf(history, "accept") * CountOf(history, "reject")

\* Lines 185-205: _compute_dimension_variance, as a numerator over den.
compute_dimension_variance(dim, history) ==
    LET na == CountOf(history, "accept")
        nr == CountOf(history, "reject")
        diff == ScoreSum(history, "accept", dim) * nr - ScoreSum(history, "reject", dim) * na
    IN  IF na = 0 \/ nr = 0 THEN 0
        ELSE Max(-10 * (na * nr), Min(10 * (na * nr), diff))

\* round(num / total * 100): to the nearest integer; a tie goes up or down.
round_percent(num, total, up) ==
    LET q == (100 * num) \div total
        r == (100 * num) % total
    IN  IF 2 * r > total \/ (2 * r = total /\ up) THEN q + 1 ELSE q

\* max(self.weights, key=...): the first of the largest, in dict order.
DimensionOrder == <<"topic", "people", "event_type", "time", "historical">>
largest_of(w) ==
    LET best == CHOOSE i \in 1..5 :
                    /\ \A j \in 1..5 : w[DimensionOrder[j]] <= w[DimensionOrder[i]]
                    /\ \A j \in 1..(i - 1) : w[DimensionOrder[j]] < w[DimensionOrder[i]]
    IN  DimensionOrder[best]

\* Line 165: the floor of 5 under each normalised weight.
no_floor(w) == w
floor_of_5(w) == Max(5, w)

\* Lines 150-160: the raw weights, as numerators over VarianceDen(history).
raw_weights(history) ==
    LET den == VarianceDen(history)
    IN  [k \in Dimensions |->
            Max(5 * den, INITIAL_WEIGHTS[k] * den + compute_dimension_variance(k, history))]

\* The dimensions whose normalised weight is exactly half way.
Ties(history) ==
    LET raw == raw_weights(history)
        total == SumOf(raw)
    IN  {k \in Dimensions : 2 * ((100 * raw[k]) % total) = total}

\* Lines 132-175: the weights computed from the history; ups holds the
\* dimensions whose tie of the rounding goes up.
rebalanced(history, ups) ==
    LET raw == raw_weights(history)
        total == SumOf(raw)
        rounded == [k \in Dimensions |-> floor_of_5(round_percent(raw[k], total, k \in ups))]
        diff == 100 - SumOf(rounded)
        largest == largest_of(rounded)
    IN  [k \in Dimensions |-> IF k = largest THEN rounded[k] + diff ELSE rounded[k]]

RecalcLeavesRest ==
    UNCHANGED <<gate_vars, loop_vars, mgr_vars, act_vars, scoring_vars, dedup_vars,
                disc_vars, conn_vars>>

\* Lines 119-175: recalculate_weights(feedback_history).
RecalculateWeights(ups) ==
    /\ returned_weights = NoDict
    /\ IF feedback_count < 5
         THEN /\ returned_weights' = INITIAL_WEIGHTS
              /\ UNCHANGED weights
         ELSE /\ weights' = rebalanced(feedback_history, ups)
              /\ returned_weights' = weights'
    /\ UNCHANGED <<topic_affinities, avoided_topics, preferred_times, feedback_count,
                   feedback_history>>
    /\ RecalcLeavesRest

Recalculate == \E ups \in SUBSET Ties(feedback_history) : RecalculateWeights(ups)

\* The histories passed in: an accepted and a rejected entry with every
\* combination of these dimension scores, alone, together, and with a
\* third entry.
AcceptScores == {0, 3, 20}
RejectScores == {0, 20}
HistoryEntry(a, sc) == [action |-> a, scores |-> sc]
AcceptEntries == {HistoryEntry("accept", sc) : sc \in [Dimensions -> AcceptScores]}
RejectEntries == {HistoryEntry("reject", sc) : sc \in [Dimensions -> RejectScores]}
OtherEntries == {HistoryEntry(a, [k \in Dimensions |-> 20]) : a \in {"accept", "edit"}}
Histories ==
    {<<>>}
    \cup {<<e>> : e \in AcceptEntries \cup RejectEntries}
    \cup {<<a, r>> : a \in AcceptEntries, r \in RejectEntries}
    \cup {<<a, r, o>> : a \in AcceptEntries, r \in RejectEntries, o \in OtherEntries}

RecalcInit ==
    /\ mode = DRY_RUN
    /\ clients = {}
    /\ ws_broadcast = FALSE
    /\ CountersInit
    /\ LoopVarsInit
    /\ MgrVarsInit
    /\ ActVarsInit
    /\ PrefVarsInit
    /\ ScoringVarsInit
    /\ DedupVarsInit
    /\ DiscVarsInit
    /\ ConnVarsInit
    /\ persisted = "none"
    /\ profile = TRUE
    /\ feedback_history \in Histories
    /\ returned_weights = NoDict

\* process_feedback calls that change nothing but the count.
RecalcCounted ==
    /\ returned_weights = NoDict
    /\ feedback_count < MaxCount
    /\ feedback_count' = feedback_count + 1
    /\ UNCHANGED <<topic_affinities, avoided_topics, preferred_times, weights,
                   feedback_history, returned_weights>>
    /\ RecalcLeavesRest

RecalcNext ==
    \/ RecalcCounted
    \/ Recalculate

SpecRecalc == RecalcInit /\ [][RecalcNext]_vars

(***************************************************************************)
(* ScoringEngine.calculate_relevance (app/services/scoring.py).  Scores    *)
(* are kept in halves: 15 is 7.5 and 200 is 100.0.  A missing key of the   *)
(* item or of the profile is its default ([] or ""), a date None is "".    *)
(***************************************************************************)
\* str.lower on the strings used.
lower(str) ==
    CASE str = "AI" -> "ai"
      [] str = "Sequoia" -> "sequoia"
      [] str = "VC Partner" -> "vc partner"
      [] str = "Dinner" -> "dinner"
      [] str = "Tuesday" -> "tuesday"
      [] OTHER -> str

\* `sub in str` on the lower-cased roles used.
Contains(str, sub) ==
    \/ sub = ""
    \/ sub = str
    \/ str = "vc partner" /\ sub \in {"vc", "partner"}

InList(x, list) == \E i \in 1..Len(list) : list[i] = x
Lowered(list) == [i \in 1..Len(list) |-> lower(list[i])]

RECURSIVE Matches(_, _)
Matches(topics, interests) ==
    IF topics = <<>> THEN 0
    ELSE (IF InList(Head(topics), interests) THEN 1 ELSE 0) + Matches(Tail(topics), interests)

\* Lines 42-48: _score_topics; ratio * 30.0 is 60 * matches / len halves.
score_topics(event_topics, user_interests) ==
    IF user_interests = <<>> THEN 0
    ELSE Min(60, (60 * Matches(Lowered(event_topics), Lowered(user_interests)))
                    \div Max(Len(user_interests), 1))

\* Lines 61-68: the points of the speakers, 12.5 per match.
RECURSIVE Points(_, _, _)
Points(speakers, target_companies, target_roles) ==
    IF speakers = <<>> THEN 0
    ELSE LET company == lower(Head(speakers).company)
             role == lower(Head(speakers).role)
         IN  (IF company # "" /\ InList(company, target_companies) THEN 25 ELSE 0)
             + (IF role # "" /\ \E i \in 1..Len(target_roles) : Contains(role, target_roles[i])
                  THEN 25 ELSE 0)
             + Points(Tail(speakers), target_companies, target_roles)

\* Line 70: min(25.0, points)
points_uncapped(points) == points
capped_points(points) == Min(50, points)

\* Lines 54-70: _score_people
score_people(speakers, prof) ==
    IF speakers = <<>> THEN 0
    ELSE IF prof.target_companies = <<>> /\ prof.target_roles = <<>> THEN 0
    ELSE capped_points(Points(speakers, Lowered(prof.target_companies),
                              Lowered(prof.target_roles)))

\* Lines 84-91: the related types.
related(type) ==
    CASE type = "conference" -> {"meetup", "workshop", "demo_day"}
      [] type = "meetup" -> {"conference", "happy_hour"}
      [] type = "dinner" -> {"happy_hour"}
      [] type = "workshop" -> {"conference", "meetup"}
      [] type = "happy_hour" -> {"dinner", "meetup"}
      [] type = "demo_day" -> {"conference", "meetup"}
      [] OTHER -> {}

\* Lines 76-95: _score_event_type
score_event_type(event_type, preferred_types) ==
    IF preferred_types = <<>> THEN 0
    ELSE IF InList(lower(event_type), Lowered(preferred_types)) THEN 30
    ELSE IF \E r \in related(lower(event_type)) : InList(r, Lowered(preferred_types)) THEN 15
    ELSE 0

\* datetime.fromisoformat, strftime("%A").lower() and .hour on the dates used.
Dates == {"", "next week", "2026-03-10T18:00:00", "2026-03-14T03:00:00"}
fromisoformat(date_str) ==
    CASE date_str = "2026-03-10T18:00:00" -> [ok |-> TRUE, day |-> "tuesday", hour |-> 18]
      [] date_str = "2026-03-14T03:00:00" -> [ok |-> TRUE, day |-> "saturday", hour |-> 3]
      [] OTHER -> [ok |-> FALSE, day |-> "", hour |-> 0]

\* Lines 104-129: _score_time
score_time(date_str, days, bands) ==
    IF date_str = "" THEN 15
    ELSE IF ~fromisoformat(date_str).ok THEN 15
    ELSE LET dt == fromisoformat(date_str)
             times == Lowered(bands)
             day_score == IF days = <<>> \/ InList(dt.day, Lowered(days))
                            THEN 15 ELSE 0
             time_score ==
                IF bands = <<>> THEN 15
                ELSE IF InList("morning", times) /\ 6 <= dt.hour /\ dt.hour < 12 THEN 15
                ELSE IF InList("afternoon", times) /\ 12 <= dt.hour /\ dt.hour < 17 THEN 15
                ELSE IF InList("evening", times) /\ 17 <= dt.hour /\ dt.hour < 23 THEN 15
                ELSE 0
         IN  Min(30, day_score + time_score)

\* Line 135: _score_historical
score_historical == 15

\* Lines 16-36: calculate_relevance, with the five dimension scores.
calculate_relevance(item, prof) ==
    LET topic_score == score_topics(item.topics, prof.interests)
        people_score == score_people(item.speakers, prof)
        event_type_score == score_event_type(item.event_type, prof.preferred_event_types)
        time_score == score_time(item.date, prof.preferred_days, prof.preferred_times)
        raw == topic_score + people_score + event_type_score + time_score + score_historical
    IN  [topic |-> topic_score, people |-> people_score, event_type |-> event_type_score,
         time |-> time_score, historical |-> score_historical,
         total |-> Max(0, Min(200, raw))]

\* The items and the profiles scored.
SeqsUpTo(S, n) == UNION {[1..k -> S] : k \in 0..n}
TopicNames == {"AI", "web3"}
Speakers == {[company |-> "Sequoia", role |-> "VC Partner"], [company |-> "", role |-> "engineer"]}
Items ==
    [topics : SeqsUpTo(TopicNames, MaxItems),
     speakers : SeqsUpTo(Speakers, MaxItems),
     event_type : {"", "Dinner", "happy_hour"},
     date : Dates]
ScoringProfiles ==
    [interests : {<<>>, <<"ai">>, <<"ai", "web3">>, <<"AI", "ai">>},
     target_companies : {<<>>, <<"sequoia">>},
     target_roles : {<<>>, <<"partner", "">>},
     preferred_event_types : {<<>>, <<"dinner">>, <<"meetup", "conference">>},
     preferred_days : {<<>>, <<"Tuesday">>},
     preferred_times : {<<>>, <<"evening">>, <<"morning", "afternoon">>}]

CalculateRelevance ==
    /\ relevance = NoRelevance
    /\ relevance' = calculate_relevance(enriched, scoring_profile)
    /\ UNCHANGED <<gate_vars, loop_vars, mgr_vars, act_vars, pref_vars, recalc_vars,
                   enriched, scoring_profile, dedup_vars, disc_vars, conn_vars>>

ScoringInit ==
    /\ mode = DRY_RUN
    /\ clients = {}
    /\ ws_broadcast = FALSE
    /\ CountersInit
    /\ LoopVarsInit
    /\ MgrVarsInit
    /\ ActVarsInit
    /\ PrefVarsInit
    /\ RecalcVarsInit
    /\ DedupVarsInit
    /\ DiscVarsInit
    /\ ConnVarsInit
    /\ persisted = "none"
    /\ profile = TRUE
    /\ enriched \in Items
    /\ scoring_profile \in ScoringProfiles
    /\ relevance = NoRelevance

ScoringNext == CalculateRelevance

SpecScoring == ScoringInit /\ [][ScoringNext]_vars

(***************************************************************************)
(* deduplicate_events (app/services/deduplication.py).  An event is its    *)
(* title, its date ("" when the key is missing or None) and the length of  *)
(* its description.  fuzz.ratio(a, b) > 80 is the relation `similar`, any   *)
(* reflexive and symmetric relation on the titles.                         *)
(***************************************************************************)
\* Lines 57-68: _is_duplicate_event
is_duplicate_event(a, b, sim) ==
    IF a.title = "" \/ b.title = "" THEN FALSE
    ELSE IF <<a.title, b.title>> \notin sim THEN FALSE
    ELSE IF a.date # "" /\ b.date # "" THEN a.date = b.date
    ELSE TRUE

\* Lines 24-26: len(event.get("description", "")) > len(existing.get(...))
at_least_as_long(event, existing) == event.description >= existing.description
longer(event, existing) == event.description > existing.description

\* Lines 20-30: one event against the unique list so far.
merge_event(unique, event, sim) ==
    LET dups == {i \in 1..Len(unique) : is_duplicate_event(event, unique[i], sim)}
    IN  IF dups = {} THEN Append(unique, event)
        ELSE LET i == CHOOSE k \in dups : \A j \in dups : k <= j
             IN  IF longer(event, unique[i])
                   THEN [unique EXCEPT ![i] = event]
                   ELSE unique

\* Lines 21-30: the index in unique that the event is merged into (where the
\* inner loop breaks), or the index it is appended at.
slot_for(unique, event, sim) ==
    LET dups == {i \in 1..Len(unique) : is_duplicate_event(event, unique[i], sim)}
    IN  IF dups = {} THEN Len(unique) + 1
        ELSE CHOOSE k \in dups : \A j \in dups : k <= j

\* The slots of the events of the list, in the order of the outer loop.
RECURSIVE merge_slots(_, _, _)
merge_slots(unique, rest, sim) ==
    IF rest = <<>> THEN <<>>
    ELSE <<slot_for(unique, Head(rest), sim)>>
            \o merge_slots(merge_event(unique, Head(rest), sim), Tail(rest), sim)

RECURSIVE merge_all(_, _, _)
merge_all(unique, rest, sim) ==
    IF rest = <<>> THEN unique
    ELSE merge_all(merge_event(unique, Head(rest), sim), Tail(rest), sim)

\* Lines 6-33: deduplicate_events
deduplicate_events(list, sim) == merge_all(<<>>, list, sim)

\* The events and the similarity relations tried.
Titles == {"AI Founders Dinner SF", "AI Founders Dinner - SF", "AI Founders Diner"}
Untitled == [title |-> "", date |-> "", description |-> 0]
DedupEvents ==
    {Untitled}
    \cup [title : {"AI Founders Dinner SF", "AI Founders Dinner - SF"},
          date : {"", "2026-03-10", "2026-03-11"}, description : {0, 1}]
    \cup [title : {"AI Founders Diner"}, date : {""}, description : {0, 1}]
Similarities ==
    {sim \in SUBSET (Titles \X Titles) :
        /\ \A t \in Titles : <<t, t>> \in sim
        /\ \A t \in Titles, u \in Titles : <<t, u>> \in sim => <<u, t>> \in sim}

DedupLeavesRest ==
    UNCHANGED <<gate_vars, loop_vars, mgr_vars, act_vars, pref_vars, recalc_vars,
                scoring_vars, disc_vars, conn_vars, events, similar>>

DeduplicateEvents ==
    /\ deduplicated = NotCalled
    /\ deduplicated' = deduplicate_events(events, similar)
    /\ UNCHANGED deduplicated_again
    /\ DedupLeavesRest

DeduplicateAgain ==
    /\ deduplicated # NotCalled
    /\ deduplicated_again = NotCalled
    /\ deduplicated_again' = deduplicate_events(deduplicated, similar)
    /\ UNCHANGED deduplicated
    /\ DedupLeavesRest

DedupInit ==
    /\ mode = DRY_RUN
    /\ clients = {}
    /\ ws_broadcast = FALSE
    /\ CountersInit
    /\ LoopVarsInit
    /\ MgrVarsInit
    /\ ActVarsInit
    /\ PrefVarsInit
    /\ RecalcVarsInit
    /\ ScoringVarsInit
    /\ DiscVarsInit
    /\ ConnVarsInit
    /\ persisted = "none"
    /\ profile = TRUE
    /\ events \in SeqsUpTo(DedupEvents, MaxEvents)
    /\ similar \in Similarities
    /\ deduplicated = NotCalled
    /\ deduplicated_again = NotCalled

DedupNext ==
    \/ DeduplicateEvents
    \/ DeduplicateAgain

SpecDedup == DedupInit /\ [][DedupNext]_vars

(***************************************************************************)
(* DiscoveryAgent.discover_events_tavily (app/agents/discovery.py): one    *)
(* search coroutine per query, joined by                                   *)
(* asyncio.gather with return_exceptions=True.  A search is "created",    *)
(* "awaiting" (at line 63 of tavily_client.py), "returned" or             *)
(* "raised"; a step is the code between two awaits.                        *)
(***************************************************************************)
\* Line 47: _build_queries makes at most 3 queries, and at least one.
MAX_QUERIES == 3

\* str.strip on the strings used.
strip(str) ==
    CASE str = " Good Event " -> "Good Event"
      [] str = " " -> ""
      [] OTHER -> str

\* Lines 29-34: _source_from_url on the urls used.
source_from_url(url) ==
    CASE url = "https://lu.ma/1" -> "luma"
      [] url = "https://www.eventbrite.com/e/2" -> "eventbrite"
      [] OTHER -> "other"

\* The url of the items found by the search of query q.
UrlOf == <<"https://lu.ma/1", "https://www.eventbrite.com/e/2", "https://example.org/3">>

\* Lines 79-82: an item without a title or without a url is skipped.
valid_item(item) == strip(item.title) # "" /\ strip(item.url) # ""

\* Lines 83-90: the event made from an item.
event_of(item) ==
    [title |-> strip(item.title), url |-> strip(item.url),
     source |-> source_from_url(strip(item.url)), description |-> item.content]

\* Lines 76-77: isinstance(result, BaseException)
propagates_exception(search) == FALSE
is_exception(search) == search.st = "raised"

RECURSIVE events_of(_)
events_of(results) ==
    IF results = <<>> THEN <<>>
    ELSE (IF valid_item(Head(results)) THEN <<event_of(Head(results))>> ELSE <<>>)
         \o events_of(Tail(results))

\* Lines 75-90: the loop over the results of gather.
RECURSIVE collect(_)
collect(results) ==
    IF results = <<>> THEN <<>>
    ELSE (IF is_exception(Head(results)) THEN <<>> ELSE events_of(Head(results).results))
         \o collect(Tail(results))

\* Line 78: result.results of an exception raises AttributeError.
collect_raises(results) ==
    \E q \in 1..Len(results) : results[q].st = "raised" /\ ~is_exception(results[q])

SearchItems(q) ==
    {[title |-> " Good Event ", url |-> UrlOf[q], content |-> "desc"],
     [title |-> " ", url |-> UrlOf[q], content |-> ""],
     [title |-> "Valid", url |-> " ", content |-> ""]}

DiscLeavesRest ==
    UNCHANGED <<gate_vars, loop_vars, mgr_vars, act_vars, pref_vars, recalc_vars,
                scoring_vars, dedup_vars, conn_vars>>

\* Lines 62-73: the queries are built, the coroutines created and gathered.
DiscoverEventsTavily(n) ==
    /\ disc_pc = "idle"
    /\ disc_pc' = "gather"
    /\ searches' = [q \in 1..n |-> [st |-> "created", results |-> <<>>]]
    /\ UNCHANGED all_events
    /\ DiscLeavesRest

\* tavily_client.py lines 51-63: a search runs up to its await.
SearchStarts(q) ==
    /\ disc_pc = "gather"
    /\ searches[q].st = "created"
    /\ searches' = [searches EXCEPT ![q].st = "awaiting"]
    /\ UNCHANGED <<disc_pc, all_events>>
    /\ DiscLeavesRest

\* tavily_client.py lines 63-64: the search returns its result.
SearchReturns(q, results) ==
    /\ disc_pc = "gather"
    /\ searches[q].st = "awaiting"
    /\ searches' = [searches EXCEPT ![q] = [st |-> "returned", results |-> results]]
    /\ UNCHANGED <<disc_pc, all_events>>
    /\ DiscLeavesRest

\* tavily_client.py line 63: the search raises.
SearchRaises(q) ==
    /\ disc_pc = "gather"
    /\ searches[q].st = "awaiting"
    /\ searches' = [searches EXCEPT ![q].st = "raised"]
    /\ UNCHANGED <<disc_pc, all_events>>
    /\ DiscLeavesRest

\* Lines 73-92: gather returns once every search is done; the results are
\* collected and returned.
GatherReturns ==
    /\ disc_pc = "gather"
    /\ \A q \in 1..Len(searches) : searches[q].st \in {"returned", "raised"}
    /\ IF collect_raises(searches)
         THEN disc_pc' = "raised" /\ UNCHANGED all_events
         ELSE disc_pc' = "returned" /\ all_events' = collect(searches)
    /\ UNCHANGED searches
    /\ DiscLeavesRest

DiscInit ==
    /\ mode = DRY_RUN
    /\ clients = {}
    /\ ws_broadcast = FALSE
    /\ CountersInit
    /\ LoopVarsInit
    /\ MgrVarsInit
    /\ ActVarsInit
    /\ SvcVarsInit
    /\ persisted = "none"
    /\ profile = TRUE

DiscoverCalled == \E n \in 1..MAX_QUERIES : DiscoverEventsTavily(n)
SearchStarted == \E q \in 1..Len(searches) : SearchStarts(q)
SearchReturned ==
    \E q \in 1..Len(searches) :
        \E results \in SeqsUpTo(SearchItems(q), MaxResults) : SearchReturns(q, results)
SearchRaised == \E q \in 1..Len(searches) : SearchRaises(q)

DiscNext ==
    \/ DiscoverCalled
    \/ SearchStarted
    \/ SearchReturned
    \/ SearchRaised
    \/ GatherReturns

SpecDisc == DiscInit /\ [][DiscNext]_vars

(***************************************************************************)
(* ConnectionManager (app/core/websocket.py).  The dict _connections is    *)
(* kept as its entries in insertion order; a popped key leaves a dead      *)
(* entry behind and a new key is appended, as in CPython while the table   *)
(* is not resized (fewer than six insertions).  The iterator of items()    *)
(* walks the entries; each next() first compares the size of the dict with *)
(* the size it had when the iterator was created and raises RuntimeError   *)
(* when they differ.  A WebSocket object is the number of its connect call.*)
(***************************************************************************)
Users == {"user-1", "user-2"}
ConnEntry(u, w, live) == [user_id |-> u, ws |-> w, live |-> live]
Live(es) == {i \in 1..Len(es) : es[i].live}
SlotsOf(es, u) == {i \in Live(es) : es[i].user_id = u}
SocketsOf(es, us) == {es[i].ws : i \in {j \in Live(es) : es[j].user_id \in us}}

\* Lines 20-22: len(self._connections)
active_count(es) == Cardinality(Live(es))

\* Line 26: self._connections[user_id] = websocket
setitem(es, u, w) ==
    IF SlotsOf(es, u) # {}
      THEN [i \in 1..Len(es) |-> IF i \in SlotsOf(es, u) THEN ConnEntry(u, w, TRUE) ELSE es[i]]
      ELSE Append(es, ConnEntry(u, w, TRUE))

\* Line 30: self._connections.pop(user_id, None), for each user of us.
pop(es, us) ==
    [i \in 1..Len(es) |-> IF es[i].user_id \in us THEN [es[i] EXCEPT !.live = FALSE] ELSE es[i]]

\* The entry the iterator at position pos yields next, 0 when exhausted.
next_entry(es, pos) ==
    LET later == {i \in Live(es) : i > pos}
    IN  IF later = {} THEN 0 ELSE CHOOSE i \in later : \A j \in later : i <= j

Elements(seq) == {seq[i] : i \in 1..Len(seq)}

ConnLeavesRest ==
    UNCHANGED <<gate_vars, loop_vars, mgr_vars, act_vars, pref_vars, recalc_vars,
                scoring_vars, dedup_vars, disc_vars>>

\* Lines 24-27: connect(user_id, websocket), after accept() has returned.
Connect(u) ==
    /\ nconnects < MaxConnects
    /\ nconnects' = nconnects + 1
    /\ connections' = setitem(connections, u, nconnects + 1)
    /\ bc_stable' = bc_stable \ SocketsOf(connections, {u})
    /\ UNCHANGED <<bc_pc, bc_pos, bc_used, bc_ws, bc_disconnected, bc_sent, bc_failed,
                   bc_removed>>
    /\ ConnLeavesRest

\* Lines 29-31: disconnect(user_id), called by the WebSocket endpoint.
Disconnect(u) ==
    /\ SlotsOf(connections, u) # {}
    /\ connections' = pop(connections, {u})
    /\ bc_stable' = bc_stable \ SocketsOf(connections, {u})
    /\ UNCHANGED <<nconnects, bc_pc, bc_pos, bc_used, bc_ws, bc_disconnected, bc_sent,
                   bc_failed, bc_removed>>
    /\ ConnLeavesRest

\* Lines 45-54 from a next() of the iterator on: the RuntimeError leaves
\* broadcast; or the next send_text is awaited; or, the entries exhausted,
\* the users of `disconnected` are popped and _persist_event is awaited.
Iterate(pos, used, disconnected) ==
    IF active_count(connections) # used
      THEN /\ bc_pc' = "raised"
           /\ UNCHANGED <<connections, bc_pos, bc_ws, bc_removed>>
      ELSE LET n == next_entry(connections, pos)
           IN  IF n # 0
                 THEN /\ bc_pc' = "send"
                      /\ bc_pos' = n
                      /\ bc_ws' = [user_id |-> connections[n].user_id,
                                   ws |-> connections[n].ws]
                      /\ UNCHANGED <<connections, bc_removed>>
                 ELSE /\ bc_pc' = "persist"
                      /\ connections' = pop(connections, Elements(disconnected))
                      /\ bc_removed' =
                            bc_removed \cup SocketsOf(connections, Elements(disconnected))
                      /\ UNCHANGED <<bc_pos, bc_ws>>

\* Lines 41-47: broadcast(message) up to its first await.
Broadcast ==
    /\ bc_pc \in {"idle", "returned", "raised"}
    /\ bc_used' = active_count(connections)
    /\ bc_disconnected' = <<>>
    /\ bc_sent' = <<>>
    /\ bc_failed' = {}
    /\ bc_stable' = SocketsOf(connections, Users)
    /\ IF next_entry(connections, 0) = 0
         THEN /\ bc_pc' = "persist"
              /\ bc_removed' = {}
              /\ UNCHANGED <<connections, bc_pos, bc_ws>>
         ELSE /\ bc_pc' = "send"
              /\ bc_pos' = next_entry(connections, 0)
              /\ bc_ws' = [user_id |-> connections[next_entry(connections, 0)].user_id,
                           ws |-> connections[next_entry(connections, 0)].ws]
              /\ bc_removed' = {}
              /\ UNCHANGED connections
    /\ UNCHANGED nconnects
    /\ ConnLeavesRest

\* Line 47: send_text has returned.
SendReturns ==
    /\ bc_pc = "send"
    /\ bc_sent' = Append(bc_sent, bc_ws.ws)
    /\ Iterate(bc_pos, bc_used, bc_disconnected)
    /\ UNCHANGED <<nconnects, bc_used, bc_disconnected, bc_failed, bc_stable>>
    /\ ConnLeavesRest

\* Lines 48-49: send_text has raised.
SendRaises ==
    /\ bc_pc = "send"
    /\ bc_failed' = bc_failed \cup {bc_ws.ws}
    /\ bc_disconnected' = Append(bc_disconnected, bc_ws.user_id)
    /\ Iterate(bc_pos, bc_used, Append(bc_disconnected, bc_ws.user_id))
    /\ UNCHANGED <<nconnects, bc_used, bc_sent, bc_stable>>
    /\ ConnLeavesRest

\* Lines 54, 56-80: _persist_event has returned; it swallows its exceptions.
PersistEventReturns ==
    /\ bc_pc = "persist"
    /\ bc_pc' = "returned"
    /\ UNCHANGED <<connections, nconnects, bc_pos, bc_used, bc_ws, bc_disconnected,
                   bc_sent, bc_failed, bc_removed, bc_stable>>
    /\ ConnLeavesRest

ConnInit ==
    /\ mode = DRY_RUN
    /\ clients = {}
    /\ ws_broadcast = FALSE
    /\ CountersInit
    /\ LoopVarsInit
    /\ MgrVarsInit
    /\ ActVarsInit
    /\ SvcVarsInit
    /\ persisted = "none"
    /\ profile = TRUE

Connected == \E u \in Users : Connect(u)
Disconnected == \E u \in Users : Disconnect(u)

ConnNext ==
    \/ Connected
    \/ Disconnected
    \/ Broadcast
    \/ SendReturns
    \/ SendRaises
    \/ PersistEventReturns

SpecConn == ConnInit /\ [][ConnNext]_vars

(***************************************************************************)
(* Properties of ConnectionManager.broadcast, checked under SpecConn.      *)
(***************************************************************************)
\* The number of send_text calls of the broadcast on the socket w that have
\* ended.
SendsTo(w) ==
    Cardinality({i \in 1..Len(bc_sent) : bc_sent[i] = w})
        + (IF w \in bc_failed THEN 1 ELSE 0)

\* C40: whatever connect and disconnect calls run while a broadcast is
\* suspended in a send, the broadcast does not raise; and when its loops
\* are over it has sent the message exactly once to every socket that was
\* registered from its call on, it has removed no socket but those whose
\* send failed, and none of those is registered any more.
C40_BroadcastSafe ==
    /\ bc_pc # "raised"
    /\ bc_pc \in {"persist", "returned"} =>
            /\ \A w \in bc_stable : SendsTo(w) = 1
            /\ bc_removed \subseteq bc_failed
            /\ bc_failed \cap SocketsOf(connections, Users) = {}

(***************************************************************************)
(* Properties of the safety gate, checked under SpecGate.                  *)
(***************************************************************************)
\* The step is the first segment of an execute_tool call (the gate).
IsCallStep == ncalls' = ncalls + 1

\* The step is a _dispatch_tool that returns / that raises.
IsDispatchReturnStep == exec_pc = "dispatch" /\ result'.error # "exception" /\ exec_pc' # "dispatch"
IsDispatchRaiseStep == exec_pc = "dispatch" /\ result'.error = "exception"

ReasonNames(r, m) == \E i \in DOMAIN r.reason : r.reason[i] = m

\* C1: in DRY_RUN and REPLAY every call of yutori_browse, yutori_scout,
\* google_calendar or notify_user returns status "blocked" with the mode's
\* name in the reason and never reaches a dispatch, for every counter state
\* and client configuration; no other tool ever gets a blocked result.
C1_DryRunReplayBlockSideEffects ==
    (mode \in {"dry_run", "replay"} /\ ncalls > 0) =>
        IF exec_tool \in {"yutori_browse", "yutori_scout", "google_calendar", "notify_user"}
            THEN /\ exec_pc = "idle"
                 /\ result.status = "blocked"
                 /\ ReasonNames(result, mode)
                 /\ browse_dispatched = 0
                 /\ notify_dispatched = 0
            ELSE result.status # "blocked"

C1_Witness ==
    /\ mode = "replay"
    /\ exec_tool = "yutori_scout"
    /\ result = BlockedByMode("replay")
    /\ "yutori" \in clients
    /\ ncalls > 1

\* C2 as claimed: in CANARY the number of yutori_browse calls dispatched
\* within one UTC date never exceeds max_auto_applies_per_day.
C2_DispatchedWithinQuota ==
    mode = "canary" => browse_dispatched <= max_auto_applies_per_day

\* C2 as amended: in CANARY _applies_today, the number of yutori_browse
\* dispatches that returned since the last daily reset, never exceeds
\* max_auto_applies_per_day.
C2_AppliesTodayWithinQuota ==
    mode = "canary" => applies_today <= max_auto_applies_per_day

C2_Witness ==
    /\ mode = "canary"
    /\ applies_today = max_auto_applies_per_day
    /\ exec_tool = "yutori_browse"
    /\ result = BlockedByCanary

\* C3: in CANARY at most max_auto_send_messages_per_day notify_user calls are
\* dispatched within one UTC date.
C3_NotifyWithinQuota ==
    mode = "canary" => notify_dispatched <= max_auto_send_messages_per_day

\* C4: in CANARY a call is blocked exactly when it is yutori_browse with
\* _applies_today >= the apply quota or notify_user with _messages_today >=
\* the message quota, the counters taken after the lazy reset of that call;
\* no other tool, yutori_scout and google_calendar included, is ever blocked.
C4_CanaryBlocksOnlyExceededQuota ==
    [][mode = "canary" =>
        /\ IsCallStep =>
            (result'.status = "blocked" <=>
                \/ (exec_tool' = "yutori_browse"
                      /\ applies_today' >= max_auto_applies_per_day)
                \/ (exec_tool' = "notify_user"
                      /\ messages_today' >= max_auto_send_messages_per_day))
        /\ ~IsCallStep => (result'.status = "blocked" => result' = result)]_vars

C4_Witness ==
    /\ mode = "canary"
    /\ applies_today >= max_auto_applies_per_day
    /\ exec_tool = "yutori_scout"
    /\ exec_pc = "dispatch"

\* C5: in LIVE no call of any tool returns a blocked result, whatever the
\* counters and the reset date have become.
C5_LiveNeverBlocks == mode = "live" => result.status # "blocked"

C5_Witness ==
    /\ mode = "live"
    /\ applies_today > max_auto_applies_per_day
    /\ exec_tool = "yutori_browse"
    /\ exec_pc = "dispatch"

\* C6: at a quota check (the gate of a call in CANARY) the three counter
\* fields become 0, 0 and the current date if and only if the current date
\* differs from _last_reset_date, before the comparison of that check, so
\* that a yutori_browse checked on a new date is not blocked; a check on
\* the same date leaves the three fields as they were; the clock passing
\* midnight changes none of them.
C6_LazyResetOnDateChange ==
    [][/\ (mode = "canary" /\ IsCallStep) =>
            IF today # last_reset_date
                THEN /\ applies_today' = 0
                     /\ messages_today' = 0
                     /\ last_reset_date' = today
                     /\ exec_tool' = "yutori_browse" => result'.status # "blocked"
                ELSE UNCHANGED <<applies_today, messages_today, last_reset_date>>
       /\ today' # today =>
            UNCHANGED <<applies_today, messages_today, last_reset_date>>]_vars

C6_Witness ==
    /\ mode = "canary"
    /\ today > 1
    /\ last_reset_date = today
    /\ prev_applies = max_auto_applies_per_day
    /\ applies_today = 0
    /\ exec_tool = "yutori_browse"
    /\ exec_pc = "dispatch"

C8_CooperativeCancellation ==
    /\ [][(~running /\ ~running') =>
            (nrequests' = nrequests /\ ncalls' = ncalls)]_vars
    /\ [](~running => <>(running \/ loop_pc \in {"none", "done"}))

\* Paused inside a two-tool response: the first tool was awaited and has
\* finished, the second was skipped, the loop has finished.
C8_Witness ==
    /\ ~running
    /\ loop_pc = "done"
    /\ ncalls = 1
    /\ result.status = "completed"
    /\ conversation_history =
            <<Kickoff,
              [role |-> "assistant", kind |-> "tool_use", ids |-> <<1, 2>>],
              ToolResultsEntry(<<1>>)>>

\* C12: the loop task ends only by returning while `running` is false; an
\* error of a cycle leads into the recovery loop, which sleeps at most 60
\* times one unit, reads `running` before each sleep, and then is back at the
\* while test.
C12_LoopNeverCrashes ==
    /\ [][(loop_pc # "done" /\ loop_pc' = "done") => ~running]_vars
    /\ [](loop_pc = "backoff_sleep" => backoff_left \in 1..BACKOFF_ITERATIONS)
    /\ [][loop_pc = "backoff_sleep" =>
            \/ (loop_pc' = "backoff_sleep" /\ backoff_left' = backoff_left)
            \/ (loop_pc' = "backoff_sleep" /\ backoff_left' = backoff_left - 1
                    /\ running)
            \/ (loop_pc' = "top" /\ backoff_left' = 0
                    /\ (~running \/ backoff_left = 1))]_vars
    /\ [](loop_pc = "backoff_sleep" => <>(loop_pc = "top"))

\* The reasoning request failed, the agent kept running, and the recovery
\* loop is in its 60th and last sleep.
C12_Witness ==
    /\ loop_pc = "backoff_sleep"
    /\ backoff_left = 1
    /\ running
    /\ nrequests = 1
    /\ conversation_history = <<Kickoff>>

\* C17: a dispatch that raises ends the call of execute_tool with the error
\* result tagged with the tool name, never with an exception; the dispatch of
\* an unknown tool name returns the "Unknown tool" error result; and the loop,
\* handed a result of execute_tool, appends the tool result for the block and
\* goes on to the next block instead of entering the error handler.
C17_ToolFailureIsAResult ==
    [][/\ (exec_pc = "dispatch" /\ exec_pc' # "dispatch") =>
            /\ result' # Raised
            /\ \/ result' \in DispatchReturns(exec_tool)
               \/ /\ result' = [status |-> "absent", reason |-> <<>>,
                                 error |-> "exception", tool |-> exec_tool]
                  /\ exec_pc' = "idle"
            /\ exec_tool = UnknownTool =>
                  result' = ErrorResult("Unknown tool") /\ exec_pc' = "idle"
       /\ (loop_pc = "tool" /\ loop_pc' # "tool" /\ result.error \notin {"absent", "RAISED"}) =>
            /\ tool_results' = Append(tool_results, response.content[block_idx].id)
            /\ loop_pc' = "blocks"
            /\ block_idx' = block_idx + 1
            /\ backoff_left' = 0
      ]_vars

\* Without a broadcaster, the dispatch of the first of two tools raised; the
\* loop has appended its error result and stands at the second tool.
C17_Witness ==
    /\ ~ws_broadcast
    /\ loop_pc = "blocks"
    /\ Len(response.content) = 3
    /\ block_idx = 3
    /\ Len(tool_results) = 1
    /\ exec_pc = "idle"
    /\ exec_tool = "yutori_browse"
    /\ result = ToolFailure("yutori_browse")

(***************************************************************************)
(* Properties of the conversation, checked under SpecHistory.              *)
(***************************************************************************)
\* C13: the conversation never holds more than 102 entries, and never more
\* than 100 when the loop is at the while test.
C13_ConversationBounded ==
    /\ Len(conversation_history) <= 102
    /\ loop_pc = "top" => Len(conversation_history) <= 100

\* C14: trim_history leaves a conversation of at most 100 entries as it is
\* and turns a longer one into its first two entries followed by its last
\* 50, in order; trimming again changes nothing, and no step of the loop
\* changes the first two entries of the conversation.
C14_TrimHistory ==
    /\ [](LET h == conversation_history
              r == trim_history(conversation_history)
          IN  /\ Len(h) <= 100 => r = h
              /\ Len(h) > 100 =>
                    /\ Len(r) = 52
                    /\ r[1] = h[1] /\ r[2] = h[2]
                    /\ \A i \in 1..50 : r[2 + i] = h[Len(h) - 50 + i]
              /\ trim_history(r) = r)
    /\ [][Len(conversation_history) >= 2 =>
            SubSeq(conversation_history', 1, 2) = SubSeq(conversation_history, 1, 2)]_vars

\* A cycle has just trimmed 102 entries (numbers 0 to 101) to 52.
C14_Witness ==
    /\ loop_pc = "top"
    /\ Len(conversation_history) = 52
    /\ conversation_history[1] = Kickoff
    /\ NumberOf(conversation_history[2]) = 1
    /\ NumberOf(conversation_history[3]) = 52
    /\ NumberOf(conversation_history[52]) = 101

\* C15: the first step of run_forever adds the kickoff prompt exactly when
\* the conversation is empty and otherwise leaves the conversation as it is;
\* at the while test nothing changes the conversation, so the request that
\* follows a restart is submitted with every earlier entry in place; and the
\* kickoff prompt is never anywhere but at the head of the conversation.
C15_ResumeKeepsConversation ==
    /\ [][(loop_pc = "created" /\ loop_pc' # "created") =>
            conversation_history' =
                IF conversation_history = <<>> THEN <<Kickoff>>
                ELSE conversation_history]_vars
    /\ [][loop_pc = "top" => conversation_history' = conversation_history]_vars
    /\ [](\A i \in 2..Len(conversation_history) : conversation_history[i] # Kickoff)

\* run_forever was started a second time with four entries in the
\* conversation, and the request after the restart has been submitted.
C15_Witness ==
    /\ starts = 2
    /\ loop_pc = "request"
    /\ Len(conversation_history) = 4
    /\ conversation_history[1] = Kickoff
    /\ LastNumber(conversation_history) = 3

(***************************************************************************)
(* Properties of the AgentManager, checked under SpecMgr.                  *)
(***************************************************************************)
\* C9: once a pause has set running = False and has completed, with no start,
\* resume or run_now invoked since and none still in flight, the manager's
\* agent is not running.
C9_PauseNeverLost ==
    (pause_settled /\ \A p \in Procs : procs[p].op \notin Starters \cup {"pause"})
        => ~agent_running[m_agent]

\* C10: with an onboarded profile, once a resume has completed and until the
\* next control call, the manager holds an agent and an unfinished loop task,
\* and the agent is running (or its task is about to take its first step).
C10_ResumeStartsLoop ==
    (resume_settled /\ profile) =>
        /\ m_agent # 0
        /\ TaskActive
        /\ (agent_running[m_agent] \/ tasks[m_task].st = "created")

\* C11: at every moment at most one loop task is unfinished and at most one
\* NexusAgent instance has been built by the manager.
C11_SingleLoopTask ==
    /\ Cardinality({t \in 1..MaxTasks : tasks[t].st \in {"created", "looping"}}) <= 1
    /\ nagents <= 1

(***************************************************************************)
(* Properties of concurrent pause, resume and stop calls, checked under    *)
(* SpecControl.                                                            *)
(***************************************************************************)
\* No control call is in flight.
AllReturned == \A p \in Procs : procs[p].op = "idle"

\* C39: with every write of the status row successful, once all pause,
\* resume and stop calls have returned, the persisted status is the
\* manager's _status whenever that is one of the statuses the three calls
\* set (running, paused, stopped), for every interleaving of the calls.
C39_PersistedAgrees ==
    (AllReturned /\ m_status \in {"running", "paused", "stopped"}) =>
        persisted = m_status

(***************************************************************************)
(* Properties of the AgentManager with one caller, checked under           *)
(* SpecRestart.                                                            *)
(***************************************************************************)
\* The caller's start() has the answer of _load_persisted_status in this step.
StartReadsStatus ==
    /\ procs[Caller].op = "start"
    /\ procs[Caller].pc = "load_persisted"
    /\ procs'[Caller].pc # "load_persisted"

\* The caller's start() returns in this step from its `staying paused` branch.
StartReturnsPaused ==
    /\ procs[Caller].op = "start"
    /\ procs[Caller].pc \in {"load_persisted", "paused_init", "paused_connect"}
    /\ procs'[Caller].op = "idle"

\* What C31 says of a start() that returns from the paused branch, but for
\* the agent instance.
StaysPaused ==
    /\ ntasks' = ntasks
    /\ m_task' = m_task
    /\ m_agent' # 0 => ~agent_running'[m_agent']
    /\ m_status' = "paused"
    /\ status_of(m_agent', agent_running', m_task', tasks', m_status') = "paused"

C32_RunNowStartsLoop ==
    /\ []((procs[Caller].op = "idle" /\ profile /\ ~TaskActive) =>
            (m_agent = 0 \/ TaskDone))
    /\ [][(procs[Caller].op = "run_now" /\ procs'[Caller].op = "idle" /\ profile) =>
            /\ m_agent' # 0
            /\ m_task' # 0
            /\ tasks'[m_task'].st # "done"
            /\ (agent_running'[m_agent'] \/ tasks'[m_task'].st = "created")]_vars

(***************************************************************************)
(* Properties of ActionAgent.decide, checked under SpecDecide.             *)
(***************************************************************************)
\* C18: decide is defined on every score and profile; with the thresholds
\* taken from the profile, or 80 and 50 where the profile has none, a score
\* at or above the auto threshold gives auto_apply with should_schedule, else
\* a score at or above the suggest threshold gives suggest without it, else
\* skip without it; should_schedule is true exactly for auto_apply.
C18_DecideMatrix ==
    LET auto_t == IF "auto_apply_threshold" \in DOMAIN user_profile
                    THEN user_profile["auto_apply_threshold"] ELSE 80
        suggest_t == IF "suggest_threshold" \in DOMAIN user_profile
                       THEN user_profile["suggest_threshold"] ELSE 50
    IN  /\ decision = NoDecision => ENABLED Decide
        /\ decision # NoDecision =>
              /\ score >= auto_t =>
                    decision = [action |-> "auto_apply", should_schedule |-> TRUE]
              /\ (score < auto_t /\ score >= suggest_t) =>
                    decision = [action |-> "suggest", should_schedule |-> FALSE]
              /\ (score < auto_t /\ score < suggest_t) =>
                    decision = [action |-> "skip", should_schedule |-> FALSE]
              /\ decision.should_schedule <=> decision.action = "auto_apply"

\* A profile without thresholds and a score of exactly 50: suggest.
C18_Witness ==
    /\ user_profile = NoProfile
    /\ score = 50
    /\ decision = [action |-> "suggest", should_schedule |-> FALSE]

(***************************************************************************)
(* Properties of ActionAgent.apply_with_retry, checked under FairSpecRetry *)
(* and SpecRetry.                                                          *)
(***************************************************************************)
\* C19: a call of apply_with_retry with max_retries = N makes at most N + 1
\* calls of apply_to_event; a result whose status is not "error" is the last
\* attempt of the call and is what the call returned; and every call returns.
C19_RetryTerminates ==
    /\ [](Len(outcomes) + (IF retry_pc = "browsing" THEN 1 ELSE 0) <= max_retries + 1)
    /\ [](\A i \in 1..Len(outcomes) :
            outcomes[i].status \notin {"error", "raised"} =>
                /\ i = Len(outcomes)
                /\ retry_pc = "returned"
                /\ retry_result.status = outcomes[i].status)
    /\ (retry_pc \in {"loop", "browsing"} ~> retry_pc = "returned")

\* Called with max_retries = 2, the first attempt raised and the second was
\* applied: the call returned "applied" after two attempts.
C19_Witness ==
    /\ retry_pc = "returned"
    /\ max_retries = 2
    /\ Len(outcomes) = 2
    /\ outcomes[1].status = "raised"
    /\ retry_result.status = "applied"

\* C20: a call of apply_with_retry that returned, returned a result; it is
\* "manual_required" exactly when N + 1 attempts were made and each returned
\* status "error" or raised, and then it carries the event's URL and the
\* reason of the last attempt.
C20_ManualRequired ==
    retry_pc = "returned" =>
        /\ retry_result # NoApply
        /\ retry_result.status = "manual_required" <=>
              /\ Len(outcomes) = max_retries + 1
              /\ \A i \in 1..Len(outcomes) : outcomes[i].status \in {"error", "raised"}
        /\ retry_result.status = "manual_required" =>
              /\ retry_result.url = event_url
              /\ retry_result.reason = outcomes[Len(outcomes)].reason

\* Three attempts raised, the last with another text than the first; the
\* call returned manual_required for an event that has a URL.
C20_Witness ==
    /\ retry_pc = "returned"
    /\ retry_result.status = "manual_required"
    /\ Len(outcomes) = 3
    /\ outcomes[1].reason # outcomes[3].reason
    /\ event_url # ""

(***************************************************************************)
(* Properties of the entry points of ActionAgent, checked under SpecAction.*)
(***************************************************************************)
\* browsing_create is awaited.
ClientInvoked == retry_pc \in {"browsing", "applying"}

\* C38: over any sequence of apply_to_event, apply_with_retry and
\* process_event calls, browsing_create is invoked only with a client, with
\* side effects allowed and with the apply counter below
\* max_auto_applies_per_day; the counter changes only by one, when an
\* invocation of the client returns; it never exceeds the maximum; and a
\* process_event call whose decision is skip returns without an attempt.
C38_ApplyOnlyWithinGuards ==
    /\ [][(~ClientInvoked /\ ClientInvoked') =>
            /\ yutori
            /\ mode \in {CANARY, LIVE}
            /\ action_applies_today < max_auto_applies_per_day]_vars
    /\ [][action_applies_today' # action_applies_today =>
            /\ ClientInvoked /\ ~ClientInvoked'
            /\ action_applies_today' = action_applies_today + 1
            /\ outcomes'[Len(outcomes')].status = "applied"]_vars
    /\ [](action_applies_today <= max_auto_applies_per_day)
    /\ [][(decision' # NoDecision /\ ~ClientInvoked /\ retry_pc # "loop"
             /\ score' < Get(user_profile', "auto_apply_threshold", 80)
             /\ score' < Get(user_profile', "suggest_threshold", 50)) =>
            /\ decision'.action = "skip"
            /\ retry_pc' = "returned"
            /\ outcomes' = <<>>
            /\ action_applies_today' = action_applies_today]_vars
    /\ [](decision.action = "skip" => (~ClientInvoked /\ outcomes = <<>>))

\* The counter has reached the maximum through a direct apply_to_event and
\* a process_event, and a later process_event with decision skip returned.
C38_Witness ==
    /\ action_applies_today = max_auto_applies_per_day
    /\ decision.action = "skip"
    /\ retry_pc = "returned"
    /\ score = 30

(***************************************************************************)
(* Properties of the PreferenceEngine, checked under SpecPref.             *)
(***************************************************************************)
\* C21: after any sequence of process_feedback calls every stored topic
\* affinity is at least -1.0 and at most 1.0.
C21_AffinityInRange ==
    \A k \in DOMAIN topic_affinities :
        LET v == topic_affinities[k]
        IN  /\ v.t > -10 \/ (v.t = -10 /\ v.e >= 0)
            /\ v.t < 10 \/ (v.t = 10 /\ v.e <= 0)

\* Three feedbacks have brought a topic to exactly -1.0.
C21_Witness ==
    /\ feedback_count = 3
    /\ "ai" \in DOMAIN topic_affinities
    /\ topic_affinities["ai"] = Float(-10, 0)
    /\ "web3" \in DOMAIN topic_affinities
    /\ topic_affinities["web3"] = Float(10, 0)

\* C22: in every state a topic with affinity below -0.5 is avoided and a
\* topic with affinity at least -0.3 is not; and a feedback that leaves a
\* topic with an affinity in [-0.5, -0.3) leaves its membership as it was.
C22_AvoidedHysteresis ==
    /\ [](/\ avoided_topics \subseteq DOMAIN topic_affinities
          /\ \A k \in DOMAIN topic_affinities :
                /\ Below(topic_affinities[k], -5) => k \in avoided_topics
                /\ AtLeast(topic_affinities[k], -3) => k \notin avoided_topics)
    /\ [][\A k \in DOMAIN topic_affinities' :
            (AtLeast(topic_affinities'[k], -5) /\ Below(topic_affinities'[k], -3)) =>
                (k \in avoided_topics' <=> k \in avoided_topics)]_vars

\* An avoided topic has come back up to -0.4 and is still avoided, while
\* another topic at -0.4 never was.
C22_Witness ==
    /\ DOMAIN topic_affinities = {"ai", "web3"}
    /\ topic_affinities["ai"].t = -4
    /\ topic_affinities["web3"].t = -4
    /\ avoided_topics = {"ai"}

\* The delta of a feedback in tenths, and how often it is applied to each
\* entry of the topic list.
DeltaOf(fb) ==
    CASE fb.action = "accept" -> 3
      [] fb.action = "reject" -> -5
      [] fb.action = "edit" -> -1
      [] fb.action = "rate" /\ fb.rating = 5 -> 5
      [] fb.action = "rate" /\ fb.rating = 4 -> 3
      [] fb.action = "rate" /\ fb.rating = 2 -> -3
      [] fb.action = "rate" /\ fb.rating = 1 -> -5
      [] OTHER -> 0
TimesApplied(fb) ==
    IF fb.action = "reject" /\ fb.reason = "not_my_industry" THEN 2 ELSE 1
Occurrences(topics, k) == Cardinality({i \in 1..Len(topics) : topics[i] = k})

\* t after n additions of delta, each followed by the clamp to [-10, 10].
RECURSIVE Shifted(_, _, _)
Shifted(t, delta, n) ==
    IF n = 0 THEN t ELSE Shifted(Max(-10, Min(10, t + delta)), delta, n - 1)

\* get_topic_affinity(k) in tenths, and preferred_times.get(d, 0.0).
TenthsOf(aff, k) == IF k \in DOMAIN aff THEN aff[k].t ELSE 0
TimeOf(times, d) == IF d \in DOMAIN times THEN times[d] ELSE 0

\* C33: in every state of the engine, a process_feedback call moves the
\* affinity of every topic by the delta of the action (accept +0.3, reject
\* -0.5 and once more for the reason not_my_industry, edit -0.1, rate by
\* the map 5:+0.5 4:+0.3 3:0 2:-0.3 1:-0.5), once per entry of the topic
\* list and clamped each time; a topic that is not listed keeps its
\* affinity; the time preferences change only for a reject with reason
\* bad_timing and only at the weekday of the event; the reason
\* too_expensive changes nothing more; and the feedback count grows by
\* exactly one.
C33_FeedbackDeltas ==
    \A fb \in Feedbacks : \A es \in [1..Adjustments(fb) -> RoundingErrors] :
        LET eng == process_feedback(Engine(topic_affinities, avoided_topics,
                                           preferred_times, feedback_count), fb, es)
        IN  /\ \A k \in Topics :
                    TenthsOf(eng.aff, k) =
                        Shifted(TenthsOf(topic_affinities, k), DeltaOf(fb),
                                Occurrences(fb.topics, k) * TimesApplied(fb))
            /\ \A d \in DOMAIN eng.times :
                    TimeOf(eng.times, d) # TimeOf(preferred_times, d) =>
                        /\ fb.action = "reject"
                        /\ fb.reason = "bad_timing"
                        /\ d = "monday"
                        /\ fb.event_time = "2026-03-16T18:00:00Z"
            /\ DOMAIN preferred_times \subseteq DOMAIN eng.times
            /\ eng.count = feedback_count + 1

\* Four feedbacks have acted: "ai" stands at 0.7, "web3" has been clamped
\* at -1.0, and a reject for bad_timing has lowered Monday.
C33_Witness ==
    /\ feedback_count = 4
    /\ DOMAIN topic_affinities = {"ai", "web3"}
    /\ topic_affinities["ai"].t = 7
    /\ topic_affinities["web3"].t = -10
    /\ DOMAIN preferred_times = {"monday"}
    /\ preferred_times["monday"] = -3

(***************************************************************************)
(* Properties of recalculate_weights, checked under SpecRecalc.            *)
(***************************************************************************)
\* C23: what recalculate_weights returns has exactly the five dimension
\* keys, with integer values of at least 5 that sum to 100; so has
\* PreferenceEngine.weights.
C23_WeightsSumTo100 ==
    /\ DOMAIN weights = {"topic", "people", "event_type", "time", "historical"}
    /\ \A k \in DOMAIN weights : weights[k] \in Int /\ weights[k] >= 5
    /\ weights["topic"] + weights["people"] + weights["event_type"] + weights["time"]
            + weights["historical"] = 100
    /\ returned_weights # NoDict =>
          /\ DOMAIN returned_weights = {"topic", "people", "event_type", "time", "historical"}
          /\ \A k \in DOMAIN returned_weights :
                returned_weights[k] \in Int /\ returned_weights[k] >= 5
          /\ returned_weights["topic"] + returned_weights["people"]
                + returned_weights["event_type"] + returned_weights["time"]
                + returned_weights["historical"] = 100

\* With five feedbacks counted, a history has given a weight that the floor
\* of 5 holds up, and the weights differ from the initial ones.
C23_Witness ==
    /\ feedback_count >= 5
    /\ returned_weights # NoDict
    /\ returned_weights # INITIAL_WEIGHTS
    /\ returned_weights["time"] = 5
    /\ (100 * raw_weights(feedback_history)["time"]) \div SumOf(raw_weights(feedback_history)) < 4

\* C30: the step in which the dispatch of yutori_browse returns the
\* NotConfigured result (no Yutori client, nothing was applied) leaves
\* _applies_today as it is, so the call does not use up the CANARY quota.
C30_NotConfiguredDoesNotCount ==
    [][(IsDispatchReturnStep /\ exec_tool = "yutori_browse"
          /\ result' = NotConfigured("yutori_browse")) =>
            applies_today' = applies_today]_vars

(***************************************************************************)
(* Properties of the handling of a tool_use response, checked under        *)
(* SpecLoop.                                                               *)
(***************************************************************************)
\* The loop is in the for loop over the blocks of a tool_use response.
InBlocks == loop_pc \in {"blocks", "tool", "wait_sleep"}

\* C27: while a tool_use response is handled, the invocation given to
\* execute_tool is the next one requested and the results so far are those
\* of the invocations before it, in order; and when the handling ends with
\* `running` true, one user entry was appended that holds one result per
\* requested invocation, in the order requested, each with the id of its
\* request.
C27_OneResultPerInvocation ==
    /\ [](loop_pc = "tool" =>
            /\ response.content[block_idx].type = "tool_use"
            /\ exec_tool = response.content[block_idx].name
            /\ tool_results = ToolUseIds(SubSeq(response.content, 1, block_idx - 1)))
    /\ [][(InBlocks /\ ~InBlocks' /\ running) =>
            conversation_history' =
                trim_history(Append(conversation_history,
                                    ToolResultsEntry(ToolUseIds(response.content))))]_vars

\* The block being handled and the duration its wait asks for.
CurrentBlock == response.content[block_idx]

\* C28: the wait tool suspends in chunks of at most 10 units and tests
\* `running` before every chunk: with `running` true at a test the wait goes
\* on exactly while less than the requested duration has been slept, so it
\* ends with the requested duration slept; with `running` false at a test
\* the wait ends there, at most one chunk after `running` became false.
C28_WaitInChunks ==
    /\ [](loop_pc = "wait_sleep" =>
            /\ CurrentBlock.name = "wait"
            /\ remaining > 0
            /\ slept + remaining = CurrentBlock.units)
    /\ [][(loop_pc = "tool" /\ loop_pc' # "tool" /\ result # Raised
             /\ CurrentBlock.name = "wait") =>
            /\ slept' = 0
            /\ loop_pc' = "wait_sleep" <=> (running /\ CurrentBlock.units > 0)]_vars
    /\ [][(loop_pc = "wait_sleep" /\ slept' # slept) =>
            /\ 0 < slept' - slept /\ slept' - slept <= WAIT_CHUNK
            /\ loop_pc' \in {"wait_sleep", "blocks"}
            /\ running => (loop_pc' = "wait_sleep" <=> slept' < CurrentBlock.units)
            /\ ~running => loop_pc' = "blocks"]_vars

\* A wait of 25 units has just ended with `running` true, after chunks of
\* 10, 10 and 5 units.
C28_Witness ==
    /\ loop_pc = "blocks"
    /\ block_idx > 1
    /\ response.content[block_idx - 1].name = "wait"
    /\ response.content[block_idx - 1].units = 25
    /\ running
    /\ slept = 25

(***************************************************************************)
(* Properties of the conversation over several requests, checked under     *)
(* SpecTurns.                                                              *)
(***************************************************************************)
\* C29: whenever a reasoning request is awaited, the conversation it was
\* submitted with ends with an entry of role "user" (the conversation does
\* not change while the request is awaited).
C29_RequestEndsWithUser ==
    loop_pc = "request" =>
        /\ conversation_history # <<>>
        /\ conversation_history[Len(conversation_history)].role = "user"

\* The tool invocations of entry i are answered by entry i + 1.
Answered(h, i) ==
    /\ i < Len(h)
    /\ h[i + 1].role = "user"
    /\ h[i + 1].kind = "tool_results"
    /\ h[i + 1].ids = h[i].ids

\* C36: whenever a reasoning request is submitted, every assistant entry of
\* the conversation that holds tool invocations is followed immediately by
\* a user entry with one tool result per invocation, with the same ids;
\* also after a pause in the middle of a response with several invocations
\* and a resume.
C36_ToolUsePaired ==
    loop_pc = "request" =>
        \A i \in 1..Len(conversation_history) :
            (conversation_history[i].role = "assistant"
                /\ conversation_history[i].ids # <<>>) =>
                    Answered(conversation_history, i)

(***************************************************************************)
(* Properties of calculate_relevance, checked under SpecScoring.           *)
(***************************************************************************)
\* C24: once calculate_relevance has returned, its result is in [0, 100] and
\* each dimension score is within its cap (topic 30, people 25, event type
\* 15, time 15, historical 15), whatever the item and the profile: empty
\* ones, duplicated topics, several matching speakers, a missing or an
\* unparsable date.  Scores are in halves.
C24_ScoresWithinCaps ==
    relevance # NoRelevance =>
        /\ 0 <= relevance.total /\ relevance.total <= 200
        /\ 0 <= relevance.topic /\ relevance.topic <= 60
        /\ 0 <= relevance.people /\ relevance.people <= 50
        /\ 0 <= relevance.event_type /\ relevance.event_type <= 30
        /\ 0 <= relevance.time /\ relevance.time <= 30
        /\ 0 <= relevance.historical /\ relevance.historical <= 30

\* Two speakers that match a company and a role each (50.0 points before the
\* cap), duplicated topics that all match, and an unparsable date.
C24_Witness ==
    /\ relevance # NoRelevance
    /\ Points(enriched.speakers, Lowered(scoring_profile.target_companies),
              Lowered(scoring_profile.target_roles)) > 50
    /\ relevance.people = 50
    /\ enriched.topics = <<"AI", "AI">>
    /\ relevance.topic = 60
    /\ enriched.date = "next week"

\* Some speaker's company is a target company; some speaker's role contains
\* a target role.
CompanyMatches(speakers, prof) ==
    \E i \in 1..Len(speakers) :
        /\ speakers[i].company # ""
        /\ InList(lower(speakers[i].company), Lowered(prof.target_companies))
RoleMatches(speakers, prof) ==
    \E i \in 1..Len(speakers), j \in 1..Len(prof.target_roles) :
        /\ speakers[i].role # ""
        /\ Contains(lower(speakers[i].role), lower(prof.target_roles[j]))

\* C34: the people score is 12.5 once for a company match of any speaker
\* plus 12.5 once for a role match of any speaker: 12.5 with company
\* matches only, however many speakers match, 12.5 with role matches only,
\* and 25 only when both kinds of match occur (scores in halves).
C34_PeopleOncePerKind ==
    relevance # NoRelevance =>
        relevance.people =
            (IF CompanyMatches(enriched.speakers, scoring_profile) THEN 25 ELSE 0)
            + (IF RoleMatches(enriched.speakers, scoring_profile) THEN 25 ELSE 0)

(***************************************************************************)
(* Properties of deduplicate_events, checked under SpecDedup.              *)
(***************************************************************************)
\* C25: deduplicate_events is idempotent: applied to its own result it
\* returns that result, for every list of events and every reflexive and
\* symmetric title similarity.
C25_Idempotent ==
    deduplicated_again # NotCalled => deduplicated_again = deduplicated

\* The positions of the input whose events went into slot s of the output.
MergedInto(s) ==
    LET slots == merge_slots(<<>>, events, similar)
    IN  {n \in 1..Len(events) : slots[n] = s}

\* C35: every slot of the output holds, whole, the first of the longest
\* events merged into it (a later duplicate replaces the kept event only
\* when its description is strictly longer, and nothing of a discarded
\* event is kept); so no output event has a shorter description than an
\* input event merged into it, every input event is merged into some slot,
\* and the output is not longer than the input.
C35_LongestIsKept ==
    deduplicated # NotCalled =>
        /\ Len(deduplicated) <= Len(events)
        /\ \A n \in 1..Len(events) : \E s \in 1..Len(deduplicated) : n \in MergedInto(s)
        /\ \A s \in 1..Len(deduplicated) :
                /\ MergedInto(s) # {}
                /\ \A n \in MergedInto(s) :
                        deduplicated[s].description >= events[n].description
                /\ \E n \in MergedInto(s) :
                        /\ deduplicated[s] = events[n]
                        /\ \A k \in MergedInto(s) :
                                events[k].description = events[n].description => n <= k

\* Three events in one slot: the second has replaced the shorter first, and
\* the third, a different event of the same length, has been dropped.
C35_Witness ==
    /\ deduplicated # NotCalled
    /\ Len(events) = 3
    /\ Len(deduplicated) = 1
    /\ events[1].description < events[2].description
    /\ events[3].description = events[2].description
    /\ events[3] # events[2]
    /\ deduplicated[1] = events[2]

\* C37: the output of deduplicate_events holds no two events that are
\* duplicates of each other, for every list of events and every reflexive
\* and symmetric title similarity.
C37_NoDuplicatesLeft ==
    deduplicated # NotCalled =>
        \A i \in 1..Len(deduplicated), j \in 1..Len(deduplicated) :
            i # j => ~is_duplicate_event(deduplicated[i], deduplicated[j], similar)

(***************************************************************************)
(* Properties of discover_events_tavily, checked under SpecDisc.           *)
(***************************************************************************)
\* C26: discover_events_tavily never raises; when it has returned no search
\* is left unfinished, every valid item of every search that returned is in
\* the output, and the output holds nothing else (one event per valid item
\* of a returned search, none for a search that raised).
C26_IsolatedFailures ==
    /\ disc_pc # "raised"
    /\ disc_pc = "returned" =>
          /\ \A q \in 1..Len(searches) : searches[q].st \in {"returned", "raised"}
          /\ \A q \in 1..Len(searches) :
                searches[q].st = "returned" =>
                    \A k \in 1..Len(searches[q].results) :
                        valid_item(searches[q].results[k]) =>
                            \E j \in 1..Len(all_events) :
                                all_events[j] = event_of(searches[q].results[k])
          /\ \A j \in 1..Len(all_events) :
                \E q \in 1..Len(searches) :
                    /\ searches[q].st = "returned"
                    /\ all_events[j].url = UrlOf[q]
                    /\ Cardinality({i \in 1..Len(all_events) : all_events[i].url = UrlOf[q]})
                         = Cardinality({k \in 1..Len(searches[q].results) :
                                            valid_item(searches[q].results[k])})

\* Three searches of which the second raised: the first and the third
\* returned, and their three valid items are the output.
C26_Witness ==
    /\ disc_pc = "returned"
    /\ Len(searches) = 3
    /\ searches[2].st = "raised"
    /\ searches[1].st = "returned" /\ searches[3].st = "returned"
    /\ Len(searches[1].results) = 2
    /\ Len(all_events) = 3

====
